---- MODULE Spec2Model ----
(***************************************************************************)
(* Neon Drift Survivor: the simulation core (Engine), its input collector  *)
(* (InputController), the fixed-step loop (GameLoop) and the part of the   *)
(* React shell (App / GameCanvas) that feeds the engine's gate callbacks.  *)
(*                                                                         *)
(* Units.  Time is in milliseconds, hp / damage / multipliers / camera     *)
(* shake strength are fixed point with three decimals (x1000), xp, levels  *)
(* and ids are integers.  A value of random() is kept as the 32-bit        *)
(* integer the generator computes before its division by 2^32, held in two *)
(* 16-bit limbs; the engine reads its top limb (random() to 16 bits).      *)
(*                                                                         *)
(* Geometry.  The model keeps no coordinates or velocities of enemies,     *)
(* projectiles, pickups and effects.  Every test the code makes on them    *)
(* (circle overlap, range, leaving the arena) is an input of the update    *)
(* step, the record geo.  The player's position is kept, because restart,  *)
(* resize and findSpawnPoint read and write it; its displacement in a step *)
(* is an input as well.                                                    *)
(***************************************************************************)
EXTENDS Integers, Sequences, FiniteSets, TLC

\* ------------------------------------------------------------------ bounds

\* Simulated milliseconds covered by one update(dt) call of the engine model.
StepMs == 200

\* ------------------------------------------------------- 32-bit arithmetic

W16 == 65536

RECURSIVE Xor16(_, _)
Xor16(a, b) ==
  IF a = 0 THEN b
  ELSE IF b = 0 THEN a
  ELSE (2 * Xor16(a \div 2, b \div 2)) + (((a % 2) + (b % 2)) % 2)

RECURSIVE Or16(_, _)
Or16(a, b) ==
  IF a = 0 THEN b
  ELSE IF b = 0 THEN a
  ELSE (2 * Or16(a \div 2, b \div 2)) + (IF (a % 2) = 1 \/ (b % 2) = 1 THEN 1 ELSE 0)

\* Low and high 16 bits of the product of two 16-bit numbers.
MulLo16(x, y) == (((((x \div 256) * y) % 256) * 256) + ((x % 256) * y)) % W16
MulHi16(x, y) ==
  (((x \div 256) * y) \div 256)
    + ((((((x \div 256) * y) % 256) * 256) + ((x % 256) * y)) \div W16)

\* A 32-bit word is [hi, lo].
Word(h, l) == [hi |-> h, lo |-> l]
Xor32(a, b) == Word(Xor16(a.hi, b.hi), Xor16(a.lo, b.lo))
Or32Low(a, k) == Word(a.hi, Or16(a.lo, k))
Add32(a, b) ==
  Word((a.hi + b.hi + ((a.lo + b.lo) \div W16)) % W16, (a.lo + b.lo) % W16)
\* t >>> k for 0 < k < 16
Shr32(a, k) ==
  LET p == 2 ^ k
      q == 2 ^ (16 - k)
  IN Word(a.hi \div p, ((a.hi % p) * q) + (a.lo \div p))
\* Math.imul: the low 32 bits of the product
Imul32(a, b) ==
  Word((MulHi16(a.lo, b.lo) + MulLo16(a.hi, b.lo) + MulLo16(a.lo, b.hi)) % W16,
       MulLo16(a.lo, b.lo))

\* --------------------------------------------------------------- mulberry32

\* 0x6d2b79f5
MulberryIncHi == 27947
MulberryIncLo == 31221

\* The generator's closure variable `value`: top holds the bits above 2^32
\* (value is a JS number and is never truncated), n counts the calls.
mulberry32(seedHi, seedLo) == [top |-> 0, hi |-> seedHi, lo |-> seedLo, n |-> 0]

\* value += 0x6d2b79f5
RngStep(g) ==
  LET lo == g.lo + MulberryIncLo
      hi == g.hi + MulberryIncHi + (lo \div W16)
  IN [top |-> g.top + (hi \div W16), hi |-> hi % W16, lo |-> lo % W16, n |-> g.n + 1]

\* Calls(g, k): the generator after k more calls
Calls(g, k) ==
  LET lo == g.lo + (k * MulberryIncLo)
      hi == g.hi + (k * MulberryIncHi) + (lo \div W16)
  IN [top |-> g.top + (hi \div W16), hi |-> hi % W16, lo |-> lo % W16, n |-> g.n + k]

\* The 32-bit integer the call that left the generator in state g returns
\* (before the division by 4294967296).
RngOut(g) ==
  LET Mix1(t) == Imul32(Xor32(t, Shr32(t, 15)), Or32Low(t, 1))
      Mix2(t) == Xor32(t, Add32(t, Imul32(Xor32(t, Shr32(t, 7)), Or32Low(t, 61))))
      Mix3(t) == Xor32(t, Shr32(t, 14))
  IN Mix3(Mix2(Mix1(Word(g.hi, g.lo))))

\* floor(random() * 65536) for the call that left the generator in state g
R16(g) == RngOut(g).hi

\* ------------------------------------------------------------------ helpers

Min(a, b) == IF a < b THEN a ELSE b
Max(a, b) == IF a > b THEN a ELSE b
clamp(v, lo, hi) == Min(hi, Max(lo, v))
\* x * m for a fixed-point factor m (three decimals)
Scale(x, m) == (x * m) \div 1000
\* floor(random() * k) for the call that left the generator in state g
RandBelow(g, k) == (R16(g) * k) \div W16
\* Statements run one after the other: first is a value before rest starts
\* (the comparison only fixes the order of evaluation).
Then(first, rest) == IF first = first THEN rest ELSE rest

\* ---------------------------------------------------------------- constants

DASH_COOLDOWN == 2500
DASH_INVULN == 350
PLAYER_HIT_GRACE == 500
SAFE_SPAWN_RADIUS == 230
BASE_SPAWN_INTERVAL == 2200
MIN_SPAWN_INTERVAL == 320
ENEMY_PROJECTILE_LIFE == 7000
SCRAP_LIFE == 18000
WAVE_INTERVAL == 90000
WAVE_DURATION == 20000
BOSS_TIME == 360000
MAX_PARTICLES == 800

STARTING_WEAPON ==
  [name |-> "Pulse Blaster", range |-> 460000, damage |-> 12000, fireRate |-> 5000,
   projectileSpeed |-> 520, pierce |-> 1, chain |-> 1, critChance |-> 180,
   knockback |-> 140]

defaultSettings ==
  [volume |-> 500, screenShake |-> TRUE, hitStop |-> TRUE, highContrast |-> FALSE,
   reduceMotion |-> FALSE, showDamageText |-> TRUE]

\* ------------------------------------------------------------------ callbacks

\* The engine's calls into EngineCallbacks during one operation are collected
\* in e.out, in order; arg is the part of the payload the shell reads.
Emit(e, cb, arg) == [e EXCEPT !.out = Append(@, [cb |-> cb, arg |-> arg])]

emitHud(e) == Emit(e, "onHudChange", e.world.player.hp)

emitInventory(e) == Emit(e, "onInventoryChange", Len(e.inventory))

emitDebug(e, isPaused) ==
  Emit(e, "onDebugChange", IF isPaused \/ e.draftActive THEN 1 ELSE 0)

\* --------------------------------------------------------------------- world

InputController ==
  [dash |-> FALSE, pausePressed |-> FALSE, restartMode |-> "null",
   debugPressed |-> FALSE, draftChoice |-> -1, touchDash |-> FALSE,
   dashWasPressed |-> FALSE]

createWorld(canvasWidth, canvasHeight) ==
  [width |-> canvasWidth, height |-> canvasHeight, elapsedSeconds |-> 0,
   seed |-> Word(0, 0), gridOffset |-> [x |-> 0, y |-> 0],
   cameraShake |-> [x |-> 0, y |-> 0, strength |-> 0],
   player |-> [x |-> 0, y |-> 0, hp |-> 100000, maxHp |-> 100000, radius |-> 12,
               invulnRemaining |-> 0, dashCooldownRemaining |-> 0,
               moveSpeedMultiplier |-> 1000, dashCooldownMultiplier |-> 1000,
               pickupMagnetMultiplier |-> 1000],
   trail |-> <<>>, dashRings |-> <<>>, enemies |-> <<>>, enemyProjectiles |-> <<>>,
   playerProjectiles |-> <<>>, sawBlades |-> <<>>, mines |-> <<>>, scrap |-> <<>>,
   hitBursts |-> <<>>, damageTexts |-> <<>>, particles |-> <<>>,
   nextEnemyId |-> 1, nextProjectileId |-> 1, nextPickupId |-> 1,
   spawnTimer |-> 1000, playerGraceRemaining |-> 0, playerFlashRemaining |-> 0,
   xp |-> 0, level |-> 1, xpToNext |-> 10, enemiesDefeated |-> 0,
   weapon |-> STARTING_WEAPON, weaponCooldown |-> 0, arcCoilLevel |-> 0,
   sawLevel |-> 0, mineLevel |-> 0, mineCooldown |-> 2000,
   director |-> [spawnRate |-> 1000, enemySpeed |-> 1000, enemyHp |-> 1000,
                 eliteChance |-> 40],
   wave |-> [active |-> FALSE, label |-> "null", enemyOverride |-> "null",
             endsAt |-> 0, nextAt |-> WAVE_INTERVAL],
   boss |-> [spawned |-> FALSE, defeated |-> FALSE, id |-> 0]]

\* The two draws of restart's gridOffset, then every run-scoped assignment.
RestartWorld(w, seed, g1, g2) ==
  [w EXCEPT
     !.elapsedSeconds = 0,
     !.seed = seed,
     !.gridOffset = [x |-> RandBelow(g1, 48), y |-> RandBelow(g2, 48)],
     !.player = [x |-> w.width \div 2, y |-> w.height \div 2, hp |-> 100000,
                 maxHp |-> 100000, radius |-> 12, invulnRemaining |-> 0,
                 dashCooldownRemaining |-> 0, moveSpeedMultiplier |-> 1000,
                 dashCooldownMultiplier |-> 1000, pickupMagnetMultiplier |-> 1000],
     !.trail = <<>>, !.dashRings = <<>>, !.enemies = <<>>,
     !.enemyProjectiles = <<>>, !.playerProjectiles = <<>>, !.sawBlades = <<>>,
     !.mines = <<>>, !.scrap = <<>>, !.hitBursts = <<>>, !.damageTexts = <<>>,
     !.particles = <<>>,
     !.nextEnemyId = 1, !.nextProjectileId = 1, !.nextPickupId = 1,
     !.spawnTimer = 800, !.playerGraceRemaining = 0, !.playerFlashRemaining = 0,
     !.cameraShake = [x |-> 0, y |-> 0, strength |-> 0],
     !.level = 1, !.xp = 0, !.xpToNext = 10, !.enemiesDefeated = 0,
     !.weapon = STARTING_WEAPON, !.weaponCooldown = 0, !.arcCoilLevel = 0,
     !.sawLevel = 0, !.mineLevel = 0, !.mineCooldown = 2000,
     !.director = [spawnRate |-> 1000, enemySpeed |-> 1000, enemyHp |-> 1000,
                   eliteChance |-> 40],
     !.wave = [active |-> FALSE, label |-> "null", enemyOverride |-> "null",
               endsAt |-> 0, nextAt |-> WAVE_INTERVAL],
     !.boss = [spawned |-> FALSE, defeated |-> FALSE, id |-> 0]]

\* restart that leaves the draft fields alone.
restart_KeepsDraft(e, mode, newSeed) ==
  LET seed == IF mode = "same_seed" THEN e.world.seed ELSE newSeed
      g1 == RngStep(mulberry32(seed.hi, seed.lo))
      g2 == RngStep(g1)
  IN emitInventory(emitHud(Emit(
       [e EXCEPT !.random = g2,
                 !.world = RestartWorld(e.world, seed, g1, g2),
                 !.hitStopRemaining = 0,
                 !.inventory = <<>>],
       "onDraftChange", 0)))

\* restart that makes the draft inactive and keeps the offered options.
restart_KeepsOptions(e, mode, newSeed) ==
  LET seed == IF mode = "same_seed" THEN e.world.seed ELSE newSeed
      g1 == RngStep(mulberry32(seed.hi, seed.lo))
      g2 == RngStep(g1)
  IN emitInventory(emitHud(Emit(
       [e EXCEPT !.random = g2,
                 !.world = RestartWorld(e.world, seed, g1, g2),
                 !.hitStopRemaining = 0,
                 !.inventory = <<>>,
                 !.draftActive = FALSE],
       "onDraftChange", 0)))

\* restart(mode); newSeed is the value createSeed() returns when it is called.
restart(e, mode, newSeed) ==
  LET seed == IF mode = "same_seed" THEN e.world.seed ELSE newSeed
      g1 == RngStep(mulberry32(seed.hi, seed.lo))
      g2 == RngStep(g1)
      e1 == [e EXCEPT !.random = g2,
                      !.world = RestartWorld(e.world, seed, g1, g2),
                      !.hitStopRemaining = 0,
                      !.inventory = <<>>,
                      !.draftActive = FALSE,
                      !.draftOptions = <<>>]
  IN emitInventory(emitHud(Emit(e1, "onDraftChange", 0)))

\* new Engine(canvas, ctx, callbacks): the field initialisers, createWorld(),
\* restart('new_seed').  createWorld's own seed field is overwritten at once.
NewEngine(canvasWidth, canvasHeight, newSeed) ==
  restart([world |-> createWorld(canvasWidth, canvasHeight),
           random |-> mulberry32(0, 0), debugEnabled |-> FALSE,
           draftOptions |-> <<>>, draftActive |-> FALSE, inventory |-> <<>>,
           hitStopRemaining |-> 0, playerProjectilePool |-> <<>>,
           enemyProjectilePool |-> <<>>, particlePool |-> <<>>,
           input |-> InputController, nextObj |-> 1, out |-> <<>>],
          "new_seed", newSeed)

\* resize(): the canvas takes the window's size, the player is clamped into it
\* (a coordinate of 0 is falsy and is replaced by the centre first).
resize(e, innerWidth, innerHeight) ==
  LET p == e.world.player IN
  [e EXCEPT !.world.width = innerWidth,
            !.world.height = innerHeight,
            !.world.player.x =
               clamp(IF p.x = 0 THEN innerWidth \div 2 ELSE p.x, 0, innerWidth),
            !.world.player.y =
               clamp(IF p.y = 0 THEN innerHeight \div 2 ELSE p.y, 0, innerHeight)]

\* -------------------------------------------------------------------- drafts

RarityWeight(rarity) ==
  IF rarity = "common" THEN 70 ELSE IF rarity = "rare" THEN 22 ELSE 8

\* One UpgradeChoice: kind and key select the apply closure, amount is its
\* scale (fixed point) or its hp amount, inv is the id recordUpgrade is given.
Choice(id, rarity, kind, key, amount, inv) ==
  [id |-> id, rarity |-> rarity, rarityWeight |-> RarityWeight(rarity),
   kind |-> kind, key |-> key, amount |-> amount, inv |-> inv]

BaseUpgradePool ==
  << Choice("damage-10", "common", "weapon", "damage", 1100, "damage-1.1"),
     Choice("damage-15", "rare", "weapon", "damage", 1150, "damage-1.15"),
     Choice("damage-20", "epic", "weapon", "damage", 1200, "damage-1.2"),
     Choice("fire-10", "common", "weapon", "fireRate", 1100, "fireRate-1.1"),
     Choice("fire-15", "rare", "weapon", "fireRate", 1150, "fireRate-1.15"),
     Choice("fire-20", "epic", "weapon", "fireRate", 1200, "fireRate-1.2"),
     Choice("range-10", "common", "weapon", "range", 1100, "range-1.1"),
     Choice("range-15", "rare", "weapon", "range", 1150, "range-1.15"),
     Choice("range-20", "epic", "weapon", "range", 1200, "range-1.2"),
     Choice("move-8", "common", "player", "moveSpeedMultiplier", 1080,
            "moveSpeedMultiplier-1.08"),
     Choice("move-12", "rare", "player", "moveSpeedMultiplier", 1120,
            "moveSpeedMultiplier-1.12"),
     Choice("move-16", "epic", "player", "moveSpeedMultiplier", 1160,
            "moveSpeedMultiplier-1.16"),
     Choice("dash-10", "common", "player", "dashCooldownMultiplier", 900,
            "dashCooldownMultiplier-0.9"),
     Choice("dash-15", "rare", "player", "dashCooldownMultiplier", 850,
            "dashCooldownMultiplier-0.85"),
     Choice("dash-20", "epic", "player", "dashCooldownMultiplier", 800,
            "dashCooldownMultiplier-0.8"),
     Choice("hp-15", "common", "hp", "maxHp", 15000, "hp-15"),
     Choice("hp-25", "rare", "hp", "maxHp", 25000, "hp-25"),
     Choice("hp-40", "epic", "hp", "maxHp", 40000, "hp-40"),
     Choice("magnet-20", "common", "player", "pickupMagnetMultiplier", 1200,
            "pickupMagnetMultiplier-1.2"),
     Choice("magnet-35", "rare", "player", "pickupMagnetMultiplier", 1350,
            "pickupMagnetMultiplier-1.35"),
     Choice("magnet-50", "epic", "player", "pickupMagnetMultiplier", 1500,
            "pickupMagnetMultiplier-1.5") >>

\* The pool that offers every hazard's unlock entry whatever its level.
createUpgradePool_Reoffers(w) ==
  BaseUpgradePool
    \o << Choice("unlock-arc", "rare", "level", "arcCoilLevel", 0, "unlock-arc") >>
    \o << Choice("unlock-saw", "rare", "level", "sawLevel", 0, "unlock-saw") >>
    \o << Choice("unlock-mine", "rare", "level", "mineLevel", 0, "unlock-mine") >>

createUpgradePool(w) ==
  BaseUpgradePool
    \o << IF w.arcCoilLevel = 0
          THEN Choice("unlock-arc", "rare", "level", "arcCoilLevel", 0, "unlock-arc")
          ELSE Choice("up-arc", "epic", "level", "arcCoilLevel", 1, "up-arc") >>
    \o << IF w.sawLevel = 0
          THEN Choice("unlock-saw", "rare", "level", "sawLevel", 0, "unlock-saw")
          ELSE Choice("up-saw", "epic", "level", "sawLevel", 1, "up-saw") >>
    \o << IF w.mineLevel = 0
          THEN Choice("unlock-mine", "rare", "level", "mineLevel", 0, "unlock-mine")
          ELSE Choice("up-mine", "epic", "level", "mineLevel", 1, "up-mine") >>

\* The inventory Map, in insertion order.
recordUpgrade(e, id) ==
  IF \E i \in 1..Len(e.inventory) : e.inventory[i].id = id
  THEN [e EXCEPT !.inventory =
          [i \in 1..Len(@) |->
             IF @[i].id = id THEN [@[i] EXCEPT !.stacks = @ + 1] ELSE @[i]]]
  ELSE [e EXCEPT !.inventory = Append(@, [id |-> id, stacks |-> 1])]

applyWeaponScale(e, key, scale, inv) ==
  recordUpgrade([e EXCEPT !.world.weapon[key] = Scale(@, scale)], inv)

applyPlayerScale(e, key, scale, inv) ==
  recordUpgrade([e EXCEPT !.world.player[key] = Scale(@, scale)], inv)

increaseMaxHp(e, amount, inv) ==
  recordUpgrade([e EXCEPT !.world.player.maxHp = @ + amount,
                          !.world.player.hp = @ + amount], inv)

\* choice.apply(world)
ApplyChoice(e, c) ==
  IF c.kind = "weapon" THEN applyWeaponScale(e, c.key, c.amount, c.inv)
  ELSE IF c.kind = "player" THEN applyPlayerScale(e, c.key, c.amount, c.inv)
  ELSE IF c.kind = "hp" THEN increaseMaxHp(e, c.amount, c.inv)
  ELSE recordUpgrade([e EXCEPT !.world[c.key] = IF c.amount = 0 THEN 1 ELSE @ + 1],
                     c.inv)

RECURSIVE TotalWeight(_)
TotalWeight(pool) ==
  IF pool = <<>> THEN 0 ELSE Head(pool).rarityWeight + TotalWeight(Tail(pool))

\* The index at which the weighted scan of rollDraftChoices breaks, for a
\* roll of r16 / 65536 * total (0-based; Len(pool) when it never breaks).
RECURSIVE ScanIndex(_, _, _, _)
ScanIndex(pool, index, acc, roll) ==
  IF index >= Len(pool) THEN index
  ELSE IF roll < ((acc + pool[index + 1].rarityWeight) * W16) THEN index
  ELSE ScanIndex(pool, index + 1, acc + pool[index + 1].rarityWeight, roll)

RemoveAt(seq, i) == SubSeq(seq, 1, i - 1) \o SubSeq(seq, i + 1, Len(seq))

\* rollDraftChoices: r is [g, picked], the generator and the picks so far.
RECURSIVE RollFrom(_, _)
RollFrom(pool, r) ==
  IF Len(r.picked) >= 3 \/ Len(pool) = 0 THEN r
  ELSE LET g == RngStep(r.g)
           index == ScanIndex(pool, 0, 0, R16(g) * TotalWeight(pool))
           at == Min(index, Len(pool) - 1) + 1
       IN RollFrom(RemoveAt(pool, at), [g |-> g, picked |-> Append(r.picked, pool[at])])

rollDraftChoices(e) == RollFrom(createUpgradePool(e.world), [g |-> e.random, picked |-> <<>>])

\* startDraft that offers the first two of the three choices rolled.
startDraft_OffersTwo(e) ==
  LET r == rollDraftChoices(e)
  IN Emit([e EXCEPT !.random = r.g, !.draftOptions = SubSeq(r.picked, 1, 2),
                    !.draftActive = TRUE],
          "onDraftChange", 2)

startDraft(e) ==
  LET r == rollDraftChoices(e)
  IN Emit([e EXCEPT !.random = r.g, !.draftOptions = r.picked, !.draftActive = TRUE],
          "onDraftChange", Len(r.picked))

\* chooseDraftOption without the two assignments that close the draft.
chooseDraftOption_KeepsDraft(e, index2) ==
  IF \/ ~e.draftActive
     \/ index2 < 0
     \/ index2 > 4
     \/ (index2 % 2) # 0
     \/ (index2 \div 2) + 1 > Len(e.draftOptions)
  THEN e
  ELSE emitInventory(emitHud(Emit(ApplyChoice(e, e.draftOptions[(index2 \div 2) + 1]),
                                  "onDraftChange", 0)))

\* chooseDraftOption that rounds a fractional index down.
chooseDraftOption_Floors(e, index2) ==
  IF \/ ~e.draftActive
     \/ index2 < 0
     \/ index2 > 4
     \/ (index2 \div 2) + 1 > Len(e.draftOptions)
  THEN e
  ELSE emitInventory(emitHud(Emit(
         [ApplyChoice(e, e.draftOptions[(index2 \div 2) + 1])
            EXCEPT !.draftActive = FALSE, !.draftOptions = <<>>],
         "onDraftChange", 0)))

\* chooseDraftOption(index); index2 is twice the index, so that an odd index2
\* is a call with a non-integer index.
chooseDraftOption(e, index2) ==
  IF \/ ~e.draftActive
     \/ index2 < 0
     \/ index2 > 4
     \/ (index2 % 2) # 0
     \/ (index2 \div 2) + 1 > Len(e.draftOptions)
  THEN e
  ELSE LET e1 == ApplyChoice(e, e.draftOptions[(index2 \div 2) + 1])
       IN emitInventory(emitHud(Emit(
            [e1 EXCEPT !.draftActive = FALSE, !.draftOptions = <<>>],
            "onDraftChange", 0)))

\* ------------------------------------------------------------ pooled records

\* this.random(): the generator advances; Rand(e) reads the value just drawn.
Draw(e) == [e EXCEPT !.random = RngStep(@)]
Rand(e) == R16(e.random)

\* allocParticle that leaves a pooled record the age it had.
allocParticle_KeepsAge(e, base) ==
  IF Len(e.particlePool) > 0
  THEN LET item == e.particlePool[Len(e.particlePool)]
       IN [e |-> [e EXCEPT !.particlePool = SubSeq(@, 1, Len(@) - 1)],
           item |-> [obj |-> item.obj, kind |-> base.kind, life |-> base.life,
                     age |-> item.age]]
  ELSE [e |-> [e EXCEPT !.nextObj = @ + 1],
        item |-> [obj |-> e.nextObj, kind |-> base.kind, life |-> base.life,
                  age |-> 0]]

\* Every pooled record carries obj, the identity of the JS object; pop() takes
\* the last record of the pool, a new object gets the next identity.
allocParticle(e, base) ==
  IF Len(e.particlePool) > 0
  THEN LET item == e.particlePool[Len(e.particlePool)]
       IN [e |-> [e EXCEPT !.particlePool = SubSeq(@, 1, Len(@) - 1)],
           item |-> [obj |-> item.obj, kind |-> base.kind, life |-> base.life,
                     age |-> 0]]
  ELSE [e |-> [e EXCEPT !.nextObj = @ + 1],
        item |-> [obj |-> e.nextObj, kind |-> base.kind, life |-> base.life,
                  age |-> 0]]

allocEnemyProjectile(e, base) ==
  IF Len(e.enemyProjectilePool) > 0
  THEN LET item == e.enemyProjectilePool[Len(e.enemyProjectilePool)]
       IN [e |-> [e EXCEPT !.enemyProjectilePool = SubSeq(@, 1, Len(@) - 1)],
           item |-> [obj |-> item.obj, id |-> base.id, radius |-> base.radius,
                     life |-> base.life, maxLife |-> base.maxLife, trail |-> <<>>]]
  ELSE [e |-> [e EXCEPT !.nextObj = @ + 1],
        item |-> [obj |-> e.nextObj, id |-> base.id, radius |-> base.radius,
                  life |-> base.life, maxLife |-> base.maxLife, trail |-> <<>>]]

\* allocPlayerProjectile that leaves a pooled record the id it had.
allocPlayerProjectile_KeepsId(e, base) ==
  IF Len(e.playerProjectilePool) > 0
  THEN LET item == e.playerProjectilePool[Len(e.playerProjectilePool)]
       IN [e |-> [e EXCEPT !.playerProjectilePool = SubSeq(@, 1, Len(@) - 1)],
           item |-> [obj |-> item.obj, id |-> item.id, life |-> base.life,
                     damage |-> base.damage,
                     pierceRemaining |-> base.pierceRemaining,
                     chainRemaining |-> base.chainRemaining,
                     critChance |-> base.critChance, knockback |-> base.knockback,
                     trail |-> <<>>, hitEnemyIds |-> <<>>]]
  ELSE [e |-> [e EXCEPT !.nextObj = @ + 1],
        item |-> [obj |-> e.nextObj, id |-> base.id, life |-> base.life,
                  damage |-> base.damage,
                  pierceRemaining |-> base.pierceRemaining,
                  chainRemaining |-> base.chainRemaining,
                  critChance |-> base.critChance, knockback |-> base.knockback,
                  trail |-> <<>>, hitEnemyIds |-> <<>>]]

allocPlayerProjectile(e, base) ==
  IF Len(e.playerProjectilePool) > 0
  THEN LET item == e.playerProjectilePool[Len(e.playerProjectilePool)]
       IN [e |-> [e EXCEPT !.playerProjectilePool = SubSeq(@, 1, Len(@) - 1)],
           item |-> [obj |-> item.obj, id |-> base.id, life |-> base.life,
                     damage |-> base.damage,
                     pierceRemaining |-> base.pierceRemaining,
                     chainRemaining |-> base.chainRemaining,
                     critChance |-> base.critChance, knockback |-> base.knockback,
                     trail |-> <<>>, hitEnemyIds |-> <<>>]]
  ELSE [e |-> [e EXCEPT !.nextObj = @ + 1],
        item |-> [obj |-> e.nextObj, id |-> base.id, life |-> base.life,
                  damage |-> base.damage,
                  pierceRemaining |-> base.pierceRemaining,
                  chainRemaining |-> base.chainRemaining,
                  critChance |-> base.critChance, knockback |-> base.knockback,
                  trail |-> <<>>, hitEnemyIds |-> <<>>]]

\* ------------------------------------------------------------------ particles

shouldShake(settings) == settings.screenShake /\ ~settings.reduceMotion

ParticleLife(kind) == IF kind = "xp" THEN 450 ELSE IF kind = "bloom" THEN 320 ELSE 240

\* spawnParticles without the test against MAX_PARTICLES.
spawnParticles_Uncapped(e, settings, kind, count) ==
  LET wanted == IF settings.reduceMotion THEN ((count * 35) + 99) \div 100 ELSE count
      pushed == wanted
      pooled == Len(e.particlePool)
      items == [i \in 1..pushed |->
                  allocParticle([particlePool |-> SubSeq(e.particlePool, 1,
                                                         Max(0, pooled - (i - 1))),
                                 nextObj |-> e.nextObj + Max(0, (i - 1) - pooled)],
                                [kind |-> kind, life |-> ParticleLife(kind)]).item]
  IN [e EXCEPT !.random = Calls(@, 3 * pushed),
               !.world.particles = @ \o items,
               !.particlePool = SubSeq(@, 1, Max(0, pooled - pushed)),
               !.nextObj = @ + Max(0, pushed - pooled)]

\* The loop of spawnParticles stops at MAX_PARTICLES; each particle it pushes
\* takes three draws (angle, speed, size) and the record allocParticle returns:
\* the i-th one is popped from the pool while the pool lasts, new after that.
spawnParticles(e, settings, kind, count) ==
  LET wanted == IF settings.reduceMotion THEN ((count * 35) + 99) \div 100 ELSE count
      pushed == Max(0, Min(wanted, MAX_PARTICLES - Len(e.world.particles)))
      pooled == Len(e.particlePool)
      items == [i \in 1..pushed |->
                  allocParticle([particlePool |-> SubSeq(e.particlePool, 1,
                                                         Max(0, pooled - (i - 1))),
                                 nextObj |-> e.nextObj + Max(0, (i - 1) - pooled)],
                                [kind |-> kind, life |-> ParticleLife(kind)]).item]
  IN [e EXCEPT !.random = Calls(@, 3 * pushed),
               !.world.particles = @ \o items,
               !.particlePool = SubSeq(@, 1, Max(0, pooled - pushed)),
               !.nextObj = @ + Max(0, pushed - pooled)]

\* --------------------------------------------------------------------- spawns

\* cos of k * 22.5 degrees, fixed point; the fallback angle of findSpawnPoint
\* is taken to the nearest sixteenth of a turn below.
Cos16 ==
  << 1000, 924, 707, 383, 0, -383, -707, -924,
     -1000, -924, -707, -383, 0, 383, 707, 924 >>
CosAt(k) == Cos16[(k % 16) + 1]
SinAt(k) == Cos16[((k + 12) % 16) + 1]

\* findSpawnPoint: r is [e, x, y]; two draws per attempt, one for the fallback.
RECURSIVE SpawnAttempt(_, _)
SpawnAttempt(e, attempt) ==
  LET w == e.world
      Fallback(e1, k) ==
        [e |-> e1,
         x |-> clamp(w.player.x + ((CosAt(k) * SAFE_SPAWN_RADIUS) \div 1000),
                     10, w.width - 10),
         y |-> clamp(w.player.y + ((SinAt(k) * SAFE_SPAWN_RADIUS) \div 1000),
                     10, w.height - 10)]
      Place(e2, x, y, dx, dy) ==
        IF ((dx * dx) + (dy * dy)) >= (SAFE_SPAWN_RADIUS * SAFE_SPAWN_RADIUS)
        THEN [e |-> e2, x |-> clamp(x, 10, w.width - 10),
              y |-> clamp(y, 10, w.height - 10)]
        ELSE SpawnAttempt(e2, attempt + 1)
      At(e2, x, y) == Place(e2, x, y, x - w.player.x, y - w.player.y)
      Edge(e2, edge, along) ==
        At(e2,
           IF edge = 0 THEN -30
           ELSE IF edge = 1 THEN w.width + 30
           ELSE (along * w.width) \div W16,
           IF edge = 0 \/ edge = 1 THEN (along * w.height) \div W16
           ELSE IF edge = 2 THEN -30
           ELSE w.height + 30)
      Second(e2, edge) == Edge(e2, edge, Rand(e2))
      First(e1) ==
        IF attempt >= 40 THEN Fallback(e1, RandBelow(e1.random, 16))
        ELSE Second(Draw(e1), RandBelow(e1.random, 4))
  IN First(Draw(e))

findSpawnPoint(e) == SpawnAttempt(e, 0)

\* createEnemy: r is [e, enemy].  The draws, in order: the type roll, those of
\* findSpawnPoint, the elite roll, wobblePhase, fireCooldown, chargeCooldown.
\* danger is fixed point; spawn is the point the enemy is created at.
createEnemy(e, danger, forcedType) ==
  LET Type(roll) ==
        IF forcedType # "null" THEN forcedType
        ELSE IF danger < 220 THEN "glider"
        ELSE IF danger < 580
             THEN (IF (roll * 10) < (7 * W16) THEN "glider" ELSE "shard")
        ELSE IF (roll * 100) < (45 * W16) THEN "glider"
        ELSE IF (roll * 100) < (75 * W16) THEN "shard"
        ELSE "ram"
      Made(e5, type, sp, elite, baseRadius, hp, fire, charge) ==
        [e |-> [e5 EXCEPT !.world.nextEnemyId = @ + 1],
         enemy |-> [id |-> e.world.nextEnemyId, type |-> type,
                    spawn |-> [x |-> sp.x, y |-> sp.y],
                    radius |-> IF elite THEN (baseRadius * 3) \div 2 ELSE baseRadius,
                    hp |-> hp, maxHp |-> hp,
                    fireCooldown |-> 1000 + fire,
                    chargeCooldown |-> 1300 + charge,
                    windupRemaining |-> 0, chargeRemaining |-> 0, contactCooldown |-> 0,
                    elite |-> elite, xpValue |-> IF elite THEN 5 ELSE 2,
                    speedMultiplier |-> IF elite THEN 1180 ELSE 1000,
                    isBoss |-> FALSE, phase |-> 1, bossAttackCooldown |-> 0,
                    bossDashCooldown |-> 0, bossSpawnCooldown |-> 0]]
      Charge(e5, type, sp, elite, fire) ==
        Made(e5, type, sp, elite,
             IF type = "ram" THEN 16000 ELSE IF type = "shard" THEN 13000 ELSE 12000,
             Scale(IF type = "ram" THEN 48000 ELSE IF type = "shard" THEN 32000
                   ELSE 22000,
                   e.world.director.enemyHp) * (IF elite THEN 2 ELSE 1),
             fire, RandBelow(e5.random, 1200))
      Fire(e4, type, sp, elite) ==
        Charge(Draw(e4), type, sp, elite, RandBelow(e4.random, 1500))
      Elite(e2, type, sp) ==
        Fire(Draw(Draw(e2)), type, sp,
             type # "boss" /\ (Rand(e2) * 1000) < (e.world.director.eliteChance * W16))
      Point(type, sp) == Elite(Draw(sp.e), type, sp)
      Roll(e1) == Point(Type(Rand(e1)), findSpawnPoint(e1))
  IN Roll(Draw(e))

createBoss(e) ==
  LET Made(sp) ==
        [e |-> [sp.e EXCEPT !.world.nextEnemyId = @ + 1],
         enemy |-> [id |-> e.world.nextEnemyId, type |-> "boss",
                    spawn |-> [x |-> sp.x, y |-> sp.y], radius |-> 42000,
                    hp |-> 3200000, maxHp |-> 3200000, fireCooldown |-> 0,
                    chargeCooldown |-> 0, windupRemaining |-> 0, chargeRemaining |-> 0,
                    contactCooldown |-> 0, elite |-> FALSE, xpValue |-> 24,
                    speedMultiplier |-> 1000, isBoss |-> TRUE, phase |-> 1,
                    bossAttackCooldown |-> 1500, bossDashCooldown |-> 3000,
                    bossSpawnCooldown |-> 6000]]
  IN Made(findSpawnPoint(e))

\* spawnScrap: two draws (angle, speed) and one id per drop.
spawnScrap(e, enemy) ==
  LET drops == IF enemy.isBoss THEN 28
               ELSE IF enemy.type = "ram" THEN 4
               ELSE IF enemy.type = "shard" THEN 3 ELSE 2
      scrapValue == IF enemy.isBoss THEN 6 ELSE enemy.xpValue
  IN [e EXCEPT !.random = Calls(@, 2 * drops),
               !.world.scrap =
                  @ \o [i \in 1..drops |->
                          [id |-> e.world.nextPickupId + (i - 1), value |-> scrapValue,
                           life |-> SCRAP_LIFE]],
               !.world.nextPickupId = @ + drops]

\* -------------------------------------------------------------------- systems

\* Every system takes the engine, dt and cx = [settings, geo]: the settings
\* getSettings() returns and the geometry of the step.  geo has
\*   move     the player's displacement, [x, y]
\*   near     ids of the enemies within the range their behaviour tests
\*   exit     ids of the projectiles that leave the expanded arena
\*   collect  ids of the scrap within pickup distance of the player
\*   sawed    pairs <<saw id, enemy id>> that overlap
\*   mined    pairs <<mine id, enemy id>>: the enemy touches the mine
\*   contact  ids of the enemies overlapping the player
\*   struck   ids of the enemy projectiles overlapping the player
\*   shot     pairs <<projectile id, enemy id>> that overlap
\*   chain    pairs <<enemy id, enemy id>>: the second enemy is within chain
\*            range of the first
NoGeo ==
  [move |-> [x |-> 0, y |-> 0], near |-> {}, exit |-> {}, collect |-> {},
   sawed |-> {}, mined |-> {}, contact |-> {}, struck |-> {}, shot |-> {},
   chain |-> {}]

\* movementSystem that dashes on every pulse, whatever the cooldown.
movementSystem_NoCooldown(e, dt, cx) ==
  LET isPressed == e.input.dash \/ e.input.touchDash
      dashPressed == isPressed /\ ~e.input.dashWasPressed
      p == e.world.player
      cooldown == Max(0, p.dashCooldownRemaining - dt)
      radius == p.radius
      Shaken(d) == IF shouldShake(cx.settings)
                   THEN [d EXCEPT !.world.cameraShake.strength = Max(@, 13000)]
                   ELSE d
      Dashed(e1) ==
        IF dashPressed
        THEN Shaken(spawnParticles(
                      [e1 EXCEPT
                         !.world.player.invulnRemaining = DASH_INVULN,
                         !.world.player.dashCooldownRemaining =
                            Scale(DASH_COOLDOWN, p.dashCooldownMultiplier),
                         !.world.dashRings = Append(@, [age |-> 0, life |-> 450])],
                      cx.settings, "dash", 14))
        ELSE e1
  IN [Dashed([e EXCEPT !.input.dashWasPressed = isPressed,
                       !.world.player.dashCooldownRemaining = cooldown,
                       !.world.player.invulnRemaining = Max(0, @ - dt)])
        EXCEPT
        !.world.player.x = clamp(@ + cx.geo.move.x, radius, e.world.width - radius),
        !.world.player.y = clamp(@ + cx.geo.move.y, radius, e.world.height - radius)]

movementSystem(e, dt, cx) ==
  LET isPressed == e.input.dash \/ e.input.touchDash
      dashPressed == isPressed /\ ~e.input.dashWasPressed
      p == e.world.player
      cooldown == Max(0, p.dashCooldownRemaining - dt)
      radius == p.radius
      Shaken(d) == IF shouldShake(cx.settings)
                   THEN [d EXCEPT !.world.cameraShake.strength = Max(@, 13000)]
                   ELSE d
      Dashed(e1) ==
        IF dashPressed /\ cooldown <= 0
        THEN Shaken(spawnParticles(
                      [e1 EXCEPT
                         !.world.player.invulnRemaining = DASH_INVULN,
                         !.world.player.dashCooldownRemaining =
                            Scale(DASH_COOLDOWN, p.dashCooldownMultiplier),
                         !.world.dashRings = Append(@, [age |-> 0, life |-> 450])],
                      cx.settings, "dash", 14))
        ELSE e1
  IN [Dashed([e EXCEPT !.input.dashWasPressed = isPressed,
                       !.world.player.dashCooldownRemaining = cooldown,
                       !.world.player.invulnRemaining = Max(0, @ - dt)])
        EXCEPT
        !.world.player.x = clamp(@ + cx.geo.move.x, radius, e.world.width - radius),
        !.world.player.y = clamp(@ + cx.geo.move.y, radius, e.world.height - radius)]

\* A trail point is pushed when the player is more than 3 px from the last one.
trailSystem(e, dt, cx) ==
  LET moved == cx.geo.move.x # 0 \/ cx.geo.move.y # 0
      pushed == IF Len(e.world.trail) = 0 \/ moved
                THEN Append(e.world.trail, [life |-> 480])
                ELSE e.world.trail
      aged == [i \in 1..Len(pushed) |-> [life |-> pushed[i].life - dt]]
      kept == SelectSeq(aged, LAMBDA point : point.life > 0)
  IN [e EXCEPT !.world.trail =
        IF Len(kept) > 80 THEN SubSeq(kept, Len(kept) - 79, Len(kept)) ELSE kept]

\* directorSystem that sends the boss in whenever no boss is on the field.
directorSystem_BossIfNoneAlive(e, dt, cx) ==
  LET t == e.world.elapsedSeconds
      ramp == Min(1000, t \div 420)
      index == (t \div WAVE_INTERVAL) % 3
      Enter(b) ==
        [b.e EXCEPT !.world.boss.spawned = TRUE,
                    !.world.boss.id = b.enemy.id,
                    !.world.enemies = Append(@, b.enemy),
                    !.world.wave.active = TRUE,
                    !.world.wave.label = "Neon Warden has entered the arena!",
                    !.world.wave.enemyOverride = "null",
                    !.world.wave.endsAt = t + 8000]
      NoneAlive(w) == \A k \in 1..Len(w.enemies) : ~w.enemies[k].isBoss
      Boss(e3) == IF NoneAlive(e3.world) /\ t >= BOSS_TIME
                  THEN Enter(createBoss(e3))
                  ELSE e3
      WaveEnd(e2) ==
        Boss(IF e2.world.wave.active /\ t >= e2.world.wave.endsAt
             THEN [e2 EXCEPT !.world.wave.active = FALSE,
                             !.world.wave.label = "null",
                             !.world.wave.enemyOverride = "null"]
             ELSE e2)
      WaveStart(e1) ==
        WaveEnd(IF ~e1.world.wave.active /\ t >= e1.world.wave.nextAt
                THEN [e1 EXCEPT !.world.wave =
                        [active |-> TRUE,
                         label |-> IF index = 0 THEN "Wave Event: Swarm"
                                   ELSE IF index = 1 THEN "Wave Event: Snipers"
                                   ELSE "Wave Event: Rams",
                         enemyOverride |-> IF index = 0 THEN "glider"
                                           ELSE IF index = 1 THEN "shard" ELSE "ram",
                         endsAt |-> t + WAVE_DURATION,
                         nextAt |-> @.nextAt + WAVE_INTERVAL]]
                ELSE e1)
  IN WaveStart([e EXCEPT !.world.director =
                  [spawnRate |-> 1000 + ((ramp * 17) \div 10),
                   enemySpeed |-> 1000 + ((ramp * 8) \div 10),
                   enemyHp |-> 1000 + ((ramp * 12) \div 10),
                   eliteChance |-> Min(320, 40 + ((ramp * 28) \div 100))]])

directorSystem(e, dt, cx) ==
  LET t == e.world.elapsedSeconds
      ramp == Min(1000, t \div 420)
      index == (t \div WAVE_INTERVAL) % 3
      Enter(b) ==
        [b.e EXCEPT !.world.boss.spawned = TRUE,
                    !.world.boss.id = b.enemy.id,
                    !.world.enemies = Append(@, b.enemy),
                    !.world.wave.active = TRUE,
                    !.world.wave.label = "Neon Warden has entered the arena!",
                    !.world.wave.enemyOverride = "null",
                    !.world.wave.endsAt = t + 8000]
      Boss(e3) == IF ~e3.world.boss.spawned /\ t >= BOSS_TIME
                  THEN Enter(createBoss(e3))
                  ELSE e3
      WaveEnd(e2) ==
        Boss(IF e2.world.wave.active /\ t >= e2.world.wave.endsAt
             THEN [e2 EXCEPT !.world.wave.active = FALSE,
                             !.world.wave.label = "null",
                             !.world.wave.enemyOverride = "null"]
             ELSE e2)
      WaveStart(e1) ==
        WaveEnd(IF ~e1.world.wave.active /\ t >= e1.world.wave.nextAt
                THEN [e1 EXCEPT !.world.wave =
                        [active |-> TRUE,
                         label |-> IF index = 0 THEN "Wave Event: Swarm"
                                   ELSE IF index = 1 THEN "Wave Event: Snipers"
                                   ELSE "Wave Event: Rams",
                         enemyOverride |-> IF index = 0 THEN "glider"
                                           ELSE IF index = 1 THEN "shard" ELSE "ram",
                         endsAt |-> t + WAVE_DURATION,
                         nextAt |-> @.nextAt + WAVE_INTERVAL]]
                ELSE e1)
  IN WaveStart([e EXCEPT !.world.director =
                  [spawnRate |-> 1000 + ((ramp * 17) \div 10),
                   enemySpeed |-> 1000 + ((ramp * 8) \div 10),
                   enemyHp |-> 1000 + ((ramp * 12) \div 10),
                   eliteChance |-> Min(320, 40 + ((ramp * 28) \div 100))]])

PushEnemy(c) == [c.e EXCEPT !.world.enemies = Append(@, c.enemy)]

RECURSIVE SpawnLoop(_, _, _)
SpawnLoop(e, danger, count) ==
  LET Pushed(e1) == Then(e1, SpawnLoop(e1, danger, count - 1)) IN
  IF count <= 0 THEN e
  ELSE Pushed(PushEnemy(createEnemy(e, danger,
                                    IF e.world.wave.active
                                    THEN e.world.wave.enemyOverride
                                    ELSE "null")))

spawnerSystem(e, dt, cx) ==
  LET w == e.world
      timer == w.spawnTimer - dt
      danger == Min(1000, w.elapsedSeconds \div 160)
      bossAlive == \E k \in 1..Len(w.enemies) :
                      w.enemies[k].isBoss /\ w.enemies[k].hp > 0
      waveBonus == IF w.wave.active THEN 1 ELSE 0
      baseCount == IF w.elapsedSeconds > 70000 THEN 2 ELSE 1
      spawnCount ==
        IF bossAlive THEN 1
        ELSE Max(1, ((baseCount * w.director.spawnRate * 6) \div 10000) + waveBonus)
      interval ==
        ((BASE_SPAWN_INTERVAL
            - (((BASE_SPAWN_INTERVAL - MIN_SPAWN_INTERVAL) * danger) \div 1000))
          * 1000) \div w.director.spawnRate
      Timed(e1) ==
        [e1 EXCEPT !.world.spawnTimer =
           (Max(MIN_SPAWN_INTERVAL, interval)
              * (800 + RandBelow(e1.random, 400))) \div 1000]
  IN IF timer > 0 THEN [e EXCEPT !.world.spawnTimer = timer]
     ELSE Timed(Draw(SpawnLoop(e, danger, spawnCount)))

\* One enemy projectile is allocated and pushed with the next projectile id.
PushEnemyProjectile(e, radius) ==
  LET Pushed(a) == [a.e EXCEPT !.world.enemyProjectiles = Append(@, a.item),
                               !.world.nextProjectileId = @ + 1]
  IN Pushed(allocEnemyProjectile(e, [id |-> e.world.nextProjectileId,
                                     radius |-> radius,
                                     life |-> ENEMY_PROJECTILE_LIFE,
                                     maxLife |-> ENEMY_PROJECTILE_LIFE]))

RECURSIVE SweepLoop(_, _)
SweepLoop(e, shots) ==
  LET Pushed(e1) == Then(e1, SweepLoop(e1, shots - 1)) IN
  IF shots <= 0 THEN e ELSE Pushed(PushEnemyProjectile(e, 7000))

bossSweepAttack(e, boss) == SweepLoop(e, 5 + (boss.phase * 2))

RECURSIVE AddsLoop(_, _, _)
AddsLoop(e, k, adds) ==
  LET Pushed(e1) == Then(e1, AddsLoop(e1, k + 1, adds)) IN
  IF k >= adds THEN e
  ELSE Pushed(PushEnemy(createEnemy(e, 1000,
                                    IF (k % 2) = 0 THEN "glider" ELSE "shard")))

\* The body of enemySystem's loop for the enemy at position k.
BossStep(e, k, dt, cx) ==
  LET Adds(e3, b1) ==
        IF b1.bossSpawnCooldown <= 0
        THEN [AddsLoop(e3, 0, 1 + b1.phase) EXCEPT
                !.world.enemies[k].bossSpawnCooldown = 8000 - (b1.phase * 1000)]
        ELSE e3
      Dash(e2, b1) ==
        Adds(IF b1.bossDashCooldown <= 0 /\ b1.id \in cx.geo.near
             THEN [e2 EXCEPT !.world.enemies[k].windupRemaining = 120,
                             !.world.enemies[k].bossDashCooldown =
                                4600 - (b1.phase * 600)]
             ELSE e2,
             b1)
      Sweep(e1, b1) ==
        Dash(IF b1.bossAttackCooldown <= 0
             THEN [bossSweepAttack(e1, b1) EXCEPT
                     !.world.enemies[k].bossAttackCooldown =
                        Max(1400, 2800 - (b1.phase * 450))]
             ELSE e1,
             b1)
      Aged(b1) == Sweep([e EXCEPT !.world.enemies[k] = b1], b1)
      Boss(b0) ==
        Aged([b0 EXCEPT !.phase = IF (b0.hp * 100) < (b0.maxHp * 33) THEN 3
                                  ELSE IF (b0.hp * 100) < (b0.maxHp * 66) THEN 2
                                  ELSE 1,
                        !.bossAttackCooldown = @ - dt,
                        !.bossDashCooldown = @ - dt,
                        !.bossSpawnCooldown = @ - dt])
  IN Boss(e.world.enemies[k])

ShardStep(e, k, dt, cx) ==
  LET n == e.world.enemies[k]
      fireCooldown == n.fireCooldown - dt
      Fired(e2) ==
        [e2 EXCEPT !.world.enemies[k].fireCooldown =
           ((((1300 + RandBelow(e2.random, 1100)) * 1000) \div n.speedMultiplier)
              * 1000) \div e.world.director.enemySpeed]
      Aged(e1) == IF fireCooldown <= 0 /\ n.id \in cx.geo.near
                  THEN Fired(Draw(PushEnemyProjectile(e1, 6000)))
                  ELSE e1
  IN Aged([e EXCEPT !.world.enemies[k].fireCooldown = fireCooldown])

\* A ram that lunges in the very step it starts to wind up.
RamStep_ChargesAtOnce(e, k, dt, cx) ==
  LET n == e.world.enemies[k]
      wasWindingUp == n.windupRemaining > 0
      windup == Max(0, n.windupRemaining - dt)
      charge == Max(0, n.chargeRemaining - dt)
      Wound(e2) ==
        [e2 EXCEPT
           !.world.enemies[k].windupRemaining =
              IF e.world.wave.enemyOverride = "ram" THEN 750 ELSE 400,
           !.world.enemies[k].chargeRemaining = 420,
           !.world.enemies[k].chargeCooldown = 2800 + RandBelow(e2.random, 1200)]
      Aged(e1) ==
        IF charge > 0 THEN e1
        ELSE IF wasWindingUp /\ windup <= 0
        THEN [e1 EXCEPT !.world.enemies[k].chargeRemaining = 420]
        ELSE IF windup > 0 THEN e1
        ELSE IF (n.chargeCooldown - dt) <= 0 /\ n.id \in cx.geo.near
        THEN Wound(Draw(e1))
        ELSE e1
  IN Aged([e EXCEPT !.world.enemies[k].chargeCooldown = @ - dt,
                    !.world.enemies[k].windupRemaining = windup,
                    !.world.enemies[k].chargeRemaining = charge])

RamStep(e, k, dt, cx) ==
  LET n == e.world.enemies[k]
      wasWindingUp == n.windupRemaining > 0
      windup == Max(0, n.windupRemaining - dt)
      charge == Max(0, n.chargeRemaining - dt)
      Wound(e2) ==
        [e2 EXCEPT
           !.world.enemies[k].windupRemaining =
              IF e.world.wave.enemyOverride = "ram" THEN 750 ELSE 400,
           !.world.enemies[k].chargeCooldown = 2800 + RandBelow(e2.random, 1200)]
      Aged(e1) ==
        IF charge > 0 THEN e1
        ELSE IF wasWindingUp /\ windup <= 0
        THEN [e1 EXCEPT !.world.enemies[k].chargeRemaining = 420]
        ELSE IF windup > 0 THEN e1
        ELSE IF (n.chargeCooldown - dt) <= 0 /\ n.id \in cx.geo.near
        THEN Wound(Draw(e1))
        ELSE e1
  IN Aged([e EXCEPT !.world.enemies[k].chargeCooldown = @ - dt,
                    !.world.enemies[k].windupRemaining = windup,
                    !.world.enemies[k].chargeRemaining = charge])

\* for (const enemy of world.enemies): the adds a boss pushes are visited too.
RECURSIVE EnemyLoop(_, _, _, _)
EnemyLoop(e, k, dt, cx) ==
  IF k > Len(e.world.enemies) THEN e
  ELSE LET e1 == [e EXCEPT !.world.enemies[k].contactCooldown = Max(0, @ - dt)]
           type == e.world.enemies[k].type
       IN EnemyLoop(IF type = "boss" THEN BossStep(e1, k, dt, cx)
                    ELSE IF type = "glider" THEN e1
                    ELSE IF type = "shard" THEN ShardStep(e1, k, dt, cx)
                    ELSE RamStep(e1, k, dt, cx),
                    k + 1, dt, cx)

enemySystem(e, dt, cx) == EnemyLoop(e, 1, dt, cx)

autoFireSystem(e, dt, cx) ==
  LET w == e.world
      cooldown == Max(0, w.weaponCooldown - dt)
  IN IF cooldown > 0 THEN [e EXCEPT !.world.weaponCooldown = cooldown]
     ELSE LET a == allocPlayerProjectile(e,
                     [id |-> w.nextProjectileId, life |-> 1800,
                      damage |-> w.weapon.damage,
                      pierceRemaining |-> w.weapon.pierce,
                      chainRemaining |-> w.weapon.chain + w.arcCoilLevel,
                      critChance |-> w.weapon.critChance,
                      knockback |-> w.weapon.knockback])
          IN [a.e EXCEPT !.world.playerProjectiles = Append(@, a.item),
                         !.world.nextProjectileId = @ + 1,
                         !.world.weaponCooldown = 1000000 \div w.weapon.fireRate]

mineSystem(e, dt, cx) ==
  LET w == e.world
      e1 == IF w.mineLevel > 0
            THEN IF (w.mineCooldown - dt) <= 0
                 THEN [e EXCEPT
                         !.world.mineCooldown = Max(700, 3000 - (w.mineLevel * 500)),
                         !.world.mines =
                            Append(@, [id |-> w.nextProjectileId, armTime |-> 250,
                                       life |-> 8000,
                                       damage |-> 30000 + (w.mineLevel * 12000),
                                       blastRadius |-> 90 + (w.mineLevel * 18)]),
                         !.world.nextProjectileId = @ + 1]
                 ELSE [e EXCEPT !.world.mineCooldown = @ - dt]
            ELSE e
      aged == [k \in 1..Len(e1.world.mines) |->
                 [e1.world.mines[k] EXCEPT !.armTime = Max(0, @ - dt),
                                           !.life = @ - dt]]
  IN [e1 EXCEPT !.world.mines = SelectSeq(aged, LAMBDA mine : mine.life > 0)]

RECURSIVE BladeLoop(_, _)
BladeLoop(e, desiredBlades) ==
  IF Len(e.world.sawBlades) >= desiredBlades THEN e
  ELSE BladeLoop([e EXCEPT
                    !.world.sawBlades =
                       Append(@, [id |-> e.world.nextProjectileId,
                                  orbitRadius |-> 42 + (e.world.sawLevel * 8),
                                  damage |-> 10000 + (e.world.sawLevel * 4000)]),
                    !.world.nextProjectileId = @ + 1],
                 desiredBlades)

sawSystem(e, dt, cx) ==
  IF e.world.sawLevel <= 0 THEN e ELSE BladeLoop(e, 2 + e.world.sawLevel)

clampTrail(trail, maxLen, dt) ==
  LET aged == [k \in 1..Len(trail) |-> [life |-> trail[k].life - dt]]
      kept == SelectSeq(aged, LAMBDA point : point.life > 0)
  IN IF Len(kept) > maxLen THEN SubSeq(kept, Len(kept) - maxLen + 1, Len(kept)) ELSE kept

\* The two loops of projectileSystem, from the last index down; list names the
\* world's list, pool the pool a removed record is pushed to.
RECURSIVE ProjectileLoop(_, _, _, _, _, _, _)
ProjectileLoop(e, list, pool, k, trailLife, maxLen, cx) ==
  IF k <= 0 THEN e
  ELSE LET p0 == e.world[list][k]
           p1 == [p0 EXCEPT
                    !.trail = clampTrail(Append(@, [life |-> trailLife]), maxLen, cx.dt),
                    !.life = @ - cx.dt]
           Moved(e1) ==
             Then(e1, ProjectileLoop(e1, list, pool, k - 1, trailLife, maxLen, cx))
       IN Moved(IF p1.life <= 0 \/ p1.id \in cx.geo.exit
                THEN [e EXCEPT !.world[list] = RemoveAt(@, k), ![pool] = Append(@, p1)]
                ELSE [e EXCEPT !.world[list][k] = p1])

projectileSystem(e, dt, cx) ==
  LET cd == [settings |-> cx.settings, geo |-> cx.geo, dt |-> dt]
      e1 == ProjectileLoop(e, "enemyProjectiles", "enemyProjectilePool",
                           Len(e.world.enemyProjectiles), 300, 9, cd)
  IN ProjectileLoop(e1, "playerProjectiles", "playerProjectilePool",
                    Len(e1.world.playerProjectiles), 220, 8, cd)

\* The level-up loop with the new threshold rounded down.
RECURSIVE LevelLoop_RoundsDown(_)
LevelLoop_RoundsDown(e) ==
  IF e.world.xp < e.world.xpToNext THEN e
  ELSE LevelLoop_RoundsDown(startDraft([e EXCEPT
                    !.world.xp = @ - e.world.xpToNext,
                    !.world.level = @ + 1,
                    !.world.xpToNext = ((e.world.xpToNext * 13) + 40) \div 10]))

\* while (world.xp >= world.xpToNext): every iteration calls startDraft().
RECURSIVE LevelLoop(_)
LevelLoop(e) ==
  IF e.world.xp < e.world.xpToNext THEN e
  ELSE LevelLoop(startDraft([e EXCEPT
                    !.world.xp = @ - e.world.xpToNext,
                    !.world.level = @ + 1,
                    !.world.xpToNext = ((e.world.xpToNext * 13) + 40 + 9) \div 10]))

\* The filter callback that keeps the pickups it has collected.
RECURSIVE PickupLoop_KeepsCollected(_, _, _, _, _)
PickupLoop_KeepsCollected(e, aged, k, kept, cx) ==
  IF k > Len(aged) THEN [e EXCEPT !.world.scrap = kept]
  ELSE LET pickup == aged[k]
           Keep(kept1) ==
             Then(kept1, PickupLoop_KeepsCollected(e, aged, k + 1, kept1, cx)) IN
       IF pickup.life <= 0 THEN PickupLoop_KeepsCollected(e, aged, k + 1, kept, cx)
       ELSE IF pickup.id \notin cx.geo.collect
       THEN Keep(Append(kept, pickup))
       ELSE LET Rest(e1) ==
                  Then(e1, PickupLoop_KeepsCollected(e1, aged, k + 1,
                                                     Append(kept, pickup), cx))
            IN Rest(LevelLoop(spawnParticles([e EXCEPT !.world.xp = @ + pickup.value],
                                             cx.settings, "xp", 3)))

\* The filter callback of pickupSystem over the aged pickups, in order.
RECURSIVE PickupLoop(_, _, _, _, _)
PickupLoop(e, aged, k, kept, cx) ==
  IF k > Len(aged) THEN [e EXCEPT !.world.scrap = kept]
  ELSE LET pickup == aged[k]
           Keep(kept1) == Then(kept1, PickupLoop(e, aged, k + 1, kept1, cx)) IN
       IF pickup.life <= 0 THEN PickupLoop(e, aged, k + 1, kept, cx)
       ELSE IF pickup.id \notin cx.geo.collect
       THEN Keep(Append(kept, pickup))
       ELSE LET Rest(e1) == Then(e1, PickupLoop(e1, aged, k + 1, kept, cx))
            IN Rest(LevelLoop(spawnParticles([e EXCEPT !.world.xp = @ + pickup.value],
                                             cx.settings, "xp", 3)))

pickupSystem(e, dt, cx) ==
  PickupLoop(e,
             [k \in 1..Len(e.world.scrap) |->
                [e.world.scrap[k] EXCEPT !.life = @ - dt]],
             1, <<>>, cx)

\* applyPlayerHit that subtracts the damage without the floor at 0.
applyPlayerHit_Unclamped(e, settings, rawDamage) ==
  LET w == e.world IN
  IF w.player.invulnRemaining > 0 \/ w.player.hp <= 0 THEN e
  ELSE LET damage == IF w.playerGraceRemaining > 0 THEN Scale(rawDamage, 350)
                     ELSE rawDamage
           e1 == [e EXCEPT !.world.player.hp = @ - damage,
                           !.world.playerGraceRemaining = PLAYER_HIT_GRACE,
                           !.world.playerFlashRemaining = 120]
       IN IF shouldShake(settings)
          THEN [e1 EXCEPT !.world.cameraShake.strength = Max(@, 7000)]
          ELSE e1

\* applyPlayerHit that takes the full damage inside the grace window.
applyPlayerHit_FullInGrace(e, settings, rawDamage) ==
  LET w == e.world IN
  IF w.player.invulnRemaining > 0 \/ w.player.hp <= 0 THEN e
  ELSE LET e1 == [e EXCEPT !.world.player.hp = Max(0, @ - rawDamage),
                           !.world.playerGraceRemaining = PLAYER_HIT_GRACE,
                           !.world.playerFlashRemaining = 120]
       IN IF shouldShake(settings)
          THEN [e1 EXCEPT !.world.cameraShake.strength = Max(@, 7000)]
          ELSE e1

applyPlayerHit(e, settings, rawDamage) ==
  LET w == e.world IN
  IF w.player.invulnRemaining > 0 \/ w.player.hp <= 0 THEN e
  ELSE LET damage == IF w.playerGraceRemaining > 0 THEN Scale(rawDamage, 350)
                     ELSE rawDamage
           e1 == [e EXCEPT !.world.player.hp = Max(0, @ - damage),
                           !.world.playerGraceRemaining = PLAYER_HIT_GRACE,
                           !.world.playerFlashRemaining = 120]
       IN IF shouldShake(settings)
          THEN [e1 EXCEPT !.world.cameraShake.strength = Max(@, 7000)]
          ELSE e1

InSeq(seq, x) == \E k \in 1..Len(seq) : seq[k] = x

\* combatSystem, saw blades: enemy.hp -= saw.damage * dt * 4 per overlap.
RECURSIVE SawLoop(_, _, _, _)
SawLoop(e, j, dt, cx) ==
  IF j > Len(e.world.sawBlades) THEN e
  ELSE LET saw == e.world.sawBlades[j]
       IN SawLoop([e EXCEPT !.world.enemies =
                     [k \in 1..Len(@) |->
                        IF <<saw.id, @[k].id>> \in cx.geo.sawed
                        THEN [@[k] EXCEPT !.hp = @ - ((saw.damage * dt * 4) \div 1000)]
                        ELSE @[k]]],
                  j + 1, dt, cx)

\* combatSystem, mines: the loop runs over a copy of the list.  An enemy that
\* touches the mine is at its centre, every other enemy is outside the blast.
RECURSIVE MineLoop(_, _, _, _)
MineLoop(e, mines, j, cx) ==
  IF j > Len(mines) THEN e
  ELSE LET mine == mines[j]
           trigger == \E k \in 1..Len(e.world.enemies) :
                         <<mine.id, e.world.enemies[k].id>> \in cx.geo.mined
       IN IF mine.armTime > 0 \/ ~trigger THEN MineLoop(e, mines, j + 1, cx)
          ELSE MineLoop(
                 spawnParticles(
                   [e EXCEPT
                      !.world.mines = SelectSeq(@, LAMBDA m : m.id # mine.id),
                      !.world.enemies =
                         [k \in 1..Len(@) |->
                            IF <<mine.id, @[k].id>> \in cx.geo.mined
                            THEN [@[k] EXCEPT !.hp = @ - mine.damage]
                            ELSE @[k]],
                      !.world.hitBursts =
                         Append(@, [age |-> 0, life |-> 260,
                                    radius |-> (mine.blastRadius * 55) \div 100])],
                   cx.settings, "bloom", 28),
                 mines, j + 1, cx)

RECURSIVE ContactLoop(_, _, _)
ContactLoop(e, k, cx) ==
  IF k > Len(e.world.enemies) THEN e
  ELSE LET enemy == e.world.enemies[k] IN
       IF enemy.contactCooldown > 0 \/ enemy.id \notin cx.geo.contact
       THEN ContactLoop(e, k + 1, cx)
       ELSE ContactLoop(
              [applyPlayerHit(e, cx.settings,
                              IF enemy.isBoss THEN 28000
                              ELSE IF enemy.type = "ram" THEN 24000 ELSE 14000)
                 EXCEPT !.world.enemies[k].contactCooldown = 350],
              k + 1, cx)

RECURSIVE StruckLoop(_, _, _)
StruckLoop(e, k, cx) ==
  IF k <= 0 THEN e
  ELSE LET projectile == e.world.enemyProjectiles[k] IN
       IF projectile.id \notin cx.geo.struck THEN StruckLoop(e, k - 1, cx)
       ELSE StruckLoop(
              [applyPlayerHit(e, cx.settings, 10000) EXCEPT
                 !.world.enemyProjectiles = RemoveAt(@, k),
                 !.enemyProjectilePool = Append(@, projectile)],
              k - 1, cx)

\* The body of the inner loop once projectile j overlaps enemy k.
ProjectileHit(e, j, k, cx) ==
  LET projectile == e.world.playerProjectiles[j]
      enemy == e.world.enemies[k]
      hitEnemyIds == Append(projectile.hitEnemyIds, enemy.id)
      Chains(e4) ==
        \E m \in 1..Len(e4.world.enemies) :
           /\ e4.world.enemies[m].id # enemy.id
           /\ ~InSeq(hitEnemyIds, e4.world.enemies[m].id)
           /\ e4.world.enemies[m].hp > 0
           /\ <<enemy.id, e4.world.enemies[m].id>> \in cx.geo.chain
      Spent(e4) ==
        [e4 EXCEPT
           !.world.playerProjectiles[j] =
              [@ EXCEPT !.hitEnemyIds = hitEnemyIds,
                        !.chainRemaining =
                           IF projectile.chainRemaining > 0 /\ Chains(e4)
                           THEN @ - 1 ELSE @,
                        !.pierceRemaining = IF @ > 0 THEN @ - 1 ELSE @,
                        !.life = IF projectile.pierceRemaining > 0 THEN @ ELSE 0]]
      Text(e3, dealt, crit) ==
        Spent(IF cx.settings.showDamageText
              THEN [e3 EXCEPT !.world.damageTexts =
                      Append(@, [age |-> 0, life |-> 450, value |-> dealt,
                                 crit |-> crit])]
              ELSE e3)
      Stop(e2, dealt, crit) ==
        Text(IF (dealt * 10) >= (e.world.weapon.damage * 17) /\ cx.settings.hitStop
             THEN [e2 EXCEPT !.hitStopRemaining = Max(@, 45)]
             ELSE e2,
             dealt, crit)
      Hit(e1, dealt, crit) ==
        Stop(spawnParticles(
               [e1 EXCEPT !.world.enemies[k].hp = @ - dealt,
                          !.world.hitBursts =
                             Append(@, [age |-> 0, life |-> 200, radius |-> 26])],
               cx.settings, "spark", IF crit THEN 12 ELSE 6),
             dealt, crit)
      Crit(e1, crit) ==
        Hit(e1, IF crit THEN (projectile.damage * 18) \div 10 ELSE projectile.damage,
            crit)
      Rolled(e1) == Crit(e1, (Rand(e1) * 1000) < (projectile.critChance * W16))
  IN Rolled(Draw(e))

\* The projectile loop without the test on hitEnemyIds.
RECURSIVE ShotLoop_Rehits(_, _, _)
ShotLoop_Rehits(e, j, cx) ==
  IF j > Len(e.world.playerProjectiles) THEN e
  ELSE LET projectile == e.world.playerProjectiles[j]
           targets == {k \in 1..Len(e.world.enemies) :
                         <<projectile.id, e.world.enemies[k].id>> \in cx.geo.shot}
       IN IF targets = {} THEN ShotLoop_Rehits(e, j + 1, cx)
          ELSE ShotLoop_Rehits(ProjectileHit(e, j, CHOOSE k \in targets :
                                                      \A m \in targets : k <= m, cx),
                               j + 1, cx)

RECURSIVE ShotLoop(_, _, _)
ShotLoop(e, j, cx) ==
  IF j > Len(e.world.playerProjectiles) THEN e
  ELSE LET projectile == e.world.playerProjectiles[j]
           targets == {k \in 1..Len(e.world.enemies) :
                         /\ ~InSeq(projectile.hitEnemyIds, e.world.enemies[k].id)
                         /\ <<projectile.id, e.world.enemies[k].id>> \in cx.geo.shot}
       IN IF targets = {} THEN ShotLoop(e, j + 1, cx)
          ELSE ShotLoop(ProjectileHit(e, j, CHOOSE k \in targets :
                                               \A m \in targets : k <= m, cx),
                        j + 1, cx)

RECURSIVE DefeatLoop(_, _)
DefeatLoop(e, k) ==
  IF k > Len(e.world.enemies) THEN e
  ELSE LET enemy == e.world.enemies[k] IN
       IF enemy.hp > 0 THEN DefeatLoop(e, k + 1)
       ELSE LET e1 == [e EXCEPT !.world.enemiesDefeated = @ + 1]
                e2 == IF enemy.isBoss
                      THEN [e1 EXCEPT !.world.boss.defeated = TRUE,
                                      !.world.wave.active = TRUE,
                                      !.world.wave.label = "Neon Warden defeated!",
                                      !.world.wave.endsAt = e.world.elapsedSeconds + 8000]
                      ELSE e1
            IN DefeatLoop(spawnScrap(e2, enemy), k + 1)

RECURSIVE ReleaseLoop(_, _)
ReleaseLoop(e, k) ==
  IF k <= 0 THEN e
  ELSE IF e.world.playerProjectiles[k].life > 0 THEN ReleaseLoop(e, k - 1)
  ELSE ReleaseLoop([e EXCEPT !.world.playerProjectiles = RemoveAt(@, k),
                             !.playerProjectilePool =
                                Append(@, e.world.playerProjectiles[k])],
                   k - 1)

\* combatSystem without the filter that removes the defeated enemies.
combatSystem_KeepsDefeated(e, dt, cx) ==
  LET Release(e8) == ReleaseLoop(e8, Len(e8.world.playerProjectiles))
      Shots(e5) == Release(DefeatLoop(ShotLoop(e5, 1, cx), 1))
      Struck(e4) == Shots(StruckLoop(e4, Len(e4.world.enemyProjectiles), cx))
      Mines(e2) == Struck(ContactLoop(MineLoop(e2, e2.world.mines, 1, cx), 1, cx))
  IN Mines(SawLoop([e EXCEPT !.world.playerGraceRemaining = Max(0, @ - dt),
                             !.world.playerFlashRemaining = Max(0, @ - dt)],
                   1, dt, cx))

combatSystem(e, dt, cx) ==
  LET Release(e8) == ReleaseLoop(e8, Len(e8.world.playerProjectiles))
      Alive(e7) ==
        Release([e7 EXCEPT !.world.enemies = SelectSeq(@, LAMBDA enemy : enemy.hp > 0)])
      Shots(e5) == Alive(DefeatLoop(ShotLoop(e5, 1, cx), 1))
      Struck(e4) == Shots(StruckLoop(e4, Len(e4.world.enemyProjectiles), cx))
      Mines(e2) == Struck(ContactLoop(MineLoop(e2, e2.world.mines, 1, cx), 1, cx))
  IN Mines(SawLoop([e EXCEPT !.world.playerGraceRemaining = Max(0, @ - dt),
                             !.world.playerFlashRemaining = Max(0, @ - dt)],
                   1, dt, cx))

Reverse(seq) == [k \in 1..Len(seq) |-> seq[Len(seq) + 1 - k]]

AgeAll(list, dt) ==
  SelectSeq([k \in 1..Len(list) |-> [list[k] EXCEPT !.age = @ + dt]],
            LAMBDA item : item.age < item.life)

\* effectsSystem: the ageing loops (particles from the last index down, the
\* dead ones pushed to the pool in that order), then the camera shake.
\* effectsSystem that pools the spent particles and keeps them on the field.
effectsSystem_KeepsSpent(e, dt, cx) ==
  LET aged == [k \in 1..Len(e.world.particles) |->
                 [e.world.particles[k] EXCEPT !.age = @ + dt]]
      strength == Max(0, e.world.cameraShake.strength - (dt * 35))
      Offset(r16) == (((r16 * 2) - W16) * strength) \div W16
      Jolt(g2, x) ==
        [g2 EXCEPT !.world.cameraShake =
           [x |-> x, y |-> Offset(Rand(g2)), strength |-> strength]]
      Jolts(g1) == Jolt(Draw(g1), Offset(Rand(g1)))
      Shake(e2) ==
        IF strength <= 10 \/ cx.settings.reduceMotion
        THEN [e2 EXCEPT !.world.cameraShake = [x |-> 0, y |-> 0, strength |-> strength]]
        ELSE Jolts(Draw(e2))
  IN Shake([e EXCEPT
              !.world.dashRings = AgeAll(@, dt),
              !.world.hitBursts = AgeAll(@, dt),
              !.world.damageTexts = AgeAll(@, dt),
              !.world.particles = aged,
              !.particlePool =
                 @ \o Reverse(SelectSeq(aged, LAMBDA p : p.age >= p.life))])

effectsSystem(e, dt, cx) ==
  LET aged == [k \in 1..Len(e.world.particles) |->
                 [e.world.particles[k] EXCEPT !.age = @ + dt]]
      strength == Max(0, e.world.cameraShake.strength - (dt * 35))
      Offset(r16) == (((r16 * 2) - W16) * strength) \div W16
      Jolt(g2, x) ==
        [g2 EXCEPT !.world.cameraShake =
           [x |-> x, y |-> Offset(Rand(g2)), strength |-> strength]]
      Jolts(g1) == Jolt(Draw(g1), Offset(Rand(g1)))
      Shake(e2) ==
        IF strength <= 10 \/ cx.settings.reduceMotion
        THEN [e2 EXCEPT !.world.cameraShake = [x |-> 0, y |-> 0, strength |-> strength]]
        ELSE Jolts(Draw(e2))
  IN Shake([e EXCEPT
              !.world.dashRings = AgeAll(@, dt),
              !.world.hitBursts = AgeAll(@, dt),
              !.world.damageTexts = AgeAll(@, dt),
              !.world.particles = SelectSeq(aged, LAMBDA p : p.age < p.life),
              !.particlePool =
                 @ \o Reverse(SelectSeq(aged, LAMBDA p : p.age >= p.life))])

\* --------------------------------------------------------------------- update

\* The systems array of the constructor, in order.
RunSystems(e, dt, cx) ==
  LET Effects(s) == Then(s, effectsSystem(s, dt, cx))
      Trail(s) == Then(s, Effects(trailSystem(s, dt, cx)))
      Combat(s) == Then(s, Trail(combatSystem(s, dt, cx)))
      Pickup(s) == Then(s, Combat(pickupSystem(s, dt, cx)))
      Projectile(s) == Then(s, Pickup(projectileSystem(s, dt, cx)))
      Saw(s) == Then(s, Projectile(sawSystem(s, dt, cx)))
      Mine(s) == Then(s, Saw(mineSystem(s, dt, cx)))
      AutoFire(s) == Then(s, Mine(autoFireSystem(s, dt, cx)))
      Enemy(s) == Then(s, AutoFire(enemySystem(s, dt, cx)))
      Spawner(s) == Then(s, Enemy(spawnerSystem(s, dt, cx)))
      Director(s) == Then(s, Spawner(directorSystem(s, dt, cx)))
  IN Director(movementSystem(e, dt, cx))

\* update, first part: the pause, debug and restart intents are consumed.
UpdateIntents(e, newSeed) ==
  LET Restart(e3, restartMode) ==
        IF restartMode # "null" THEN restart(e3, restartMode, newSeed) ELSE e3
      Debug(e1) ==
        Restart([e1 EXCEPT !.input.restartMode = "null",
                           !.input.debugPressed = FALSE,
                           !.debugEnabled = IF e1.input.debugPressed THEN ~@ ELSE @],
                e1.input.restartMode)
  IN Debug(IF e.input.pausePressed
           THEN Emit([e EXCEPT !.input.pausePressed = FALSE], "onPauseToggle", 0)
           ELSE e)

\* update without its pause / game-over gate.
UpdatePath_Ungated(e, isPaused, isGameOver) ==
  IF e.draftActive THEN "draft"
  ELSE IF e.hitStopRemaining > 0 THEN "hitStop"
  ELSE "systems"

\* The branch update takes once the intents are consumed.
UpdatePath(e, isPaused, isGameOver) ==
  IF e.draftActive THEN "draft"
  ELSE IF isPaused \/ isGameOver THEN "gate"
  ELSE IF e.hitStopRemaining > 0 THEN "hitStop"
  ELSE "systems"

\* update, second part: the gates, then the systems.
UpdateGates(e, dt, cx, isPaused, isGameOver) ==
  LET path == UpdatePath(e, isPaused, isGameOver) IN
  IF path = "draft"
  THEN LET choice == e.input.draftChoice
           e1 == [e EXCEPT !.input.draftChoice = -1]
       IN emitDebug(IF choice # -1 THEN chooseDraftOption(e1, choice * 2) ELSE e1,
                    isPaused)
  ELSE IF path = "gate"
  THEN emitDebug([e EXCEPT !.hitStopRemaining = 0], isPaused)
  ELSE IF path = "hitStop"
  THEN emitDebug(emitHud([e EXCEPT !.hitStopRemaining = Max(0, @ - dt)]), isPaused)
  ELSE emitDebug(emitHud(RunSystems([e EXCEPT !.world.elapsedSeconds = @ + dt],
                                    dt, cx)),
                 isPaused)

update(e, dt, cx, isPaused, isGameOver, newSeed) ==
  UpdateGates(UpdateIntents(e, newSeed), dt, cx, isPaused, isGameOver)

\* ------------------------------------------------------------ InputController

onKeyDown(e, code) ==
  IF code = "ShiftLeft" THEN [e EXCEPT !.input.dash = TRUE]
  ELSE IF code = "Escape" THEN [e EXCEPT !.input.pausePressed = TRUE]
  ELSE IF code = "KeyR"
  THEN [e EXCEPT !.input.restartMode =
          IF e.input.dash THEN "same_seed" ELSE "new_seed"]
  ELSE IF code = "Backquote" THEN [e EXCEPT !.input.debugPressed = TRUE]
  ELSE IF code = "Digit1" THEN [e EXCEPT !.input.draftChoice = 0]
  ELSE IF code = "Digit2" THEN [e EXCEPT !.input.draftChoice = 1]
  ELSE IF code = "Digit3" THEN [e EXCEPT !.input.draftChoice = 2]
  ELSE e

onKeyUp(e, code) ==
  IF code = "ShiftLeft" THEN [e EXCEPT !.input.dash = FALSE] ELSE e

setTouchDash(e, isPressed) == [e EXCEPT !.input.touchDash = isPressed]

\* ------------------------------------------------------------ App, GameCanvas

\* paused and gameOver are the React state of App; pauseRef and gameOverRef
\* are the refs of GameCanvas the engine's isPaused() / isGameOver() read, and
\* the values the callback closures of the last render captured.
AppInit == [paused |-> FALSE, gameOver |-> FALSE, pauseRef |-> FALSE,
            gameOverRef |-> FALSE]

onHudChange(a, hp) ==
  IF hp <= 0 /\ ~a.gameOverRef
  THEN [a EXCEPT !.gameOver = TRUE, !.paused = FALSE]
  ELSE a

onTogglePause(a) == IF ~a.gameOverRef THEN [a EXCEPT !.paused = ~@] ELSE a

\* The shell's reaction to the callbacks of one engine operation, in order.
RECURSIVE AppCallbacks(_, _)
AppCallbacks(a, out) ==
  IF out = <<>> THEN a
  ELSE AppCallbacks(IF Head(out).cb = "onHudChange" THEN onHudChange(a, Head(out).arg)
                    ELSE IF Head(out).cb = "onPauseToggle" THEN onTogglePause(a)
                    ELSE a,
                    Tail(out))

\* The effects of a render: the refs take the state's values.
AppCommit(a) == [a EXCEPT !.pauseRef = a.paused, !.gameOverRef = a.gameOver]

\* ------------------------------------------------------------------ GameLoop

\* Time is counted in units of 1/240 s: the fixed step of 1/60 s is 4 units,
\* the cap of 0.25 s is 60 units.
FIXED_STEP_SECONDS == 4
MAX_ACCUM_SECONDS == 60

\* The fields of GameLoop (animationFrameId 0 is null), and the browser's
\* side of it: the handles whose callback is still to run, the next handle
\* requestAnimationFrame returns, performance.now(), and the position of the
\* frame callback while it runs ("idle" between callbacks).
NewGameLoop ==
  [animationFrameId |-> 0, lastTimestamp |-> 0, accumulator |-> 0,
   scheduled |-> {}, nextHandle |-> 1, now |-> 0, pc |-> "idle"]

requestAnimationFrame(l) ==
  [l EXCEPT !.animationFrameId = l.nextHandle,
            !.scheduled = @ \cup {l.nextHandle},
            !.nextHandle = @ + 1]

start(l) ==
  IF l.animationFrameId # 0 THEN l
  ELSE requestAnimationFrame([l EXCEPT !.lastTimestamp = l.now])

stop(l) ==
  IF l.animationFrameId = 0 THEN l
  ELSE [l EXCEPT !.scheduled = @ \ {l.animationFrameId}, !.animationFrameId = 0]

\* frame(timestamp) with the cap left out.
FrameBegin_Uncapped(l, handle, timestamp) ==
  [l EXCEPT !.scheduled = @ \ {handle},
            !.lastTimestamp = timestamp,
            !.accumulator = @ + (timestamp - l.lastTimestamp),
            !.pc = "drain"]

\* frame(timestamp), up to the while loop: the browser runs the callback of
\* a scheduled handle.
FrameBegin(l, handle, timestamp) ==
  [l EXCEPT !.scheduled = @ \ {handle},
            !.lastTimestamp = timestamp,
            !.accumulator = @ + Min(timestamp - l.lastTimestamp, MAX_ACCUM_SECONDS),
            !.pc = "drain"]

\* What a handler does to the loop while it runs: nothing, stop() or start().
Handler(l, call) ==
  IF call = "stop" THEN stop(l) ELSE IF call = "start" THEN start(l) ELSE l

\* One iteration of the while loop: handlers.update(FIXED_STEP_SECONDS), then
\* the subtraction.
FrameUpdate(l, call) ==
  [Handler(l, call) EXCEPT !.accumulator = @ - FIXED_STEP_SECONDS]

\* After the loop: handlers.render(), then the next frame is requested.
FrameRender(l, call) ==
  [requestAnimationFrame(Handler(l, call)) EXCEPT !.pc = "idle"]

\* ------------------------------------------------------------------- bounds

\* createSeed() returns one of these (the high limb of the seed is 0).  With
\* both, the first enemy of a run that starts in the mount position is elite.
Seeds == {12, 16}
\* window.innerWidth x window.innerHeight
WindowSizes == {<<800, 600>>}
\* Key events and direct calls of the shell in one behaviour.
MaxKeyEvents == 2
\* Presses and releases of the dash key in a volley, and the time a volley
\* in which the dash key was used is followed for: longer than DASH_COOLDOWN.
MaxDashEvents == 3
TapElapsed == 3400
\* No update call is made once the simulation clock has reached this: in the
\* hunt, in the siege (long enough for the player to die) and in the hoard
\* (long enough for scrap worth two levels to lie on the field), and in the
\* volley (long enough for three enemies to be on the field and the first
\* of them shot down), and with the warden (long enough for the Neon Warden
\* to enter the arena at BOSS_TIME and to be sawed down, and for the banner
\* of its defeat to end, once the player has drafted the saw; the run stops
\* early if the player has not).
HuntElapsed == 1600
SiegeElapsed == 6400
HoardElapsed == 30000
VolleyElapsed == 7600
WardenElapsed == 428000
\* The joust lasts into the third wave (180 s), which fields rams only and
\* lengthens their windup.
JoustElapsed == 185000

SeedOf(sd) == Word(0, sd)

\* -------------------------------------------------------------------- scenes

\* The xp the scrap on the field is worth.
ScrapValue(scrap) ==
  LET Sum[n \in 0..Len(scrap)] == IF n = 0 THEN 0 ELSE Sum[n - 1] + scrap[n].value
  IN Sum[Len(scrap)]

\* The xp that takes a player of world w up two levels.
TwoLevels(w) == w.xpToNext + (((w.xpToNext * 13) + 40 + 9) \div 10)

\* The hp of the player (hp x 1000) at which the stand turns.
StandShotHp == 20000

\* The geometry of one update of engine e.  In the hunt every live projectile
\* overlaps the first enemy and every pickup is within reach; in the siege
\* every enemy touches the player; in the hoard the projectiles hit as in
\* the hunt and the pickups are out of reach until they are worth two
\* levels, and then within reach all at once; in the volley every shot
\* misses until three enemies are on the field, and from then on a projectile
\* overlaps the first enemy, which is far from the others, in the step after
\* it is fired, and once it has hit overlaps both the first and the second
\* enemy, which has the third within chain range; nothing is picked up;
\* with the warden the player hunts until the saw is drafted, and from then
\* on the first blade cuts every enemy on the field, no shot hits and
\* every pickup is within reach; in the stand every enemy touches the
\* player, the projectiles miss until the player is down to StandShotHp and
\* overlap the first enemy of the run from then on, and the pickups come
\* within reach when the player is down; in the joust the rams are within
\* their charge range of the player and no other enemy is, no enemy touches
\* the player, every live projectile overlaps the first enemy that is not a
\* ram, and every pickup is within reach.
Scene(e, scenario) ==
  LET w == e.world
      enemyIds == {w.enemies[k].id : k \in 1..Len(w.enemies)}
      firstEnemy == IF Len(w.enemies) = 0 THEN {} ELSE {w.enemies[1].id}
      projectileIds == {w.playerProjectiles[k].id : k \in 1..Len(w.playerProjectiles)}
      scrapIds == {w.scrap[k].id : k \in 1..Len(w.scrap)}
  IN IF scenario = "hunt" \/ (scenario = "warden" /\ w.sawLevel = 0)
     THEN [NoGeo EXCEPT !.shot = projectileIds \X firstEnemy, !.collect = scrapIds]
     ELSE IF scenario = "warden"
     THEN [NoGeo EXCEPT
             !.sawed = IF w.sawBlades = <<>> THEN {}
                       ELSE {w.sawBlades[1].id} \X enemyIds,
             !.collect = scrapIds]
     ELSE IF scenario = "hoard"
     THEN [NoGeo EXCEPT !.shot = projectileIds \X firstEnemy,
                        !.collect = IF w.xp + ScrapValue(w.scrap) >= TwoLevels(w)
                                    THEN scrapIds ELSE {}]
     ELSE IF scenario = "volley"
     THEN IF Len(w.enemies) < 3 THEN NoGeo
          ELSE [NoGeo EXCEPT
                  !.shot =
                     {<<w.playerProjectiles[k].id, w.enemies[1].id>> :
                        k \in {j \in 1..Len(w.playerProjectiles) :
                                 \/ w.playerProjectiles[j].life >= 1600
                                 \/ w.playerProjectiles[j].hitEnemyIds # <<>>}}
                     \cup
                     {<<w.playerProjectiles[k].id, w.enemies[2].id>> :
                        k \in {j \in 1..Len(w.playerProjectiles) :
                                 w.playerProjectiles[j].hitEnemyIds # <<>>}},
                  !.chain = {<<w.enemies[2].id, w.enemies[3].id>>,
                             <<w.enemies[3].id, w.enemies[2].id>>}]
     ELSE IF scenario = "joust"
     THEN LET rams == {w.enemies[k].id : k \in {j \in 1..Len(w.enemies) :
                                                w.enemies[j].type = "ram"}}
              others == {j \in 1..Len(w.enemies) : w.enemies[j].type # "ram"}
          IN [NoGeo EXCEPT
                !.near = rams,
                !.collect = scrapIds,
                !.shot = IF others = {} THEN {}
                         ELSE projectileIds
                                \X {w.enemies[CHOOSE j \in others :
                                                \A i \in others : j <= i].id}]
     ELSE IF scenario = "stand"
     THEN [NoGeo EXCEPT
             !.contact = enemyIds, !.near = enemyIds,
             !.shot = IF w.player.hp <= StandShotHp
                      THEN projectileIds \X (enemyIds \cap {1}) ELSE {},
             !.collect = IF w.player.hp <= 0 THEN scrapIds ELSE {}]
     ELSE [NoGeo EXCEPT !.contact = enemyIds, !.near = enemyIds]

Horizon(scenario) ==
  IF scenario = "hunt" THEN HuntElapsed
  ELSE IF scenario = "hoard" THEN HoardElapsed
  ELSE IF scenario = "volley" THEN VolleyElapsed
  ELSE IF scenario = "warden" THEN WardenElapsed
  ELSE IF scenario = "joust" THEN JoustElapsed ELSE SiegeElapsed

\* ---------------------------------------------------------------- state

VARIABLES
  engine,   \* the Engine object
  app,      \* the React state and refs behind isPaused() / isGameOver()
  keys,     \* number of key events and shell calls so far
  scenario, \* what the geometry of this run does: "hunt", "siege", "hoard",
            \* "volley", "warden", "stand", "joust";
            \* for two runs side by side, what the second run differs in
  twin,     \* a second Engine object, for the comparison of two runs
  loop,     \* the GameLoop object and the browser's frame queue
  ev        \* the last operation: its name, the branch taken, the engine
            \* before it, the engine once update had consumed its intents,
            \* and its argument (for update: the draft choice latched and
            \* what isPaused() and isGameOver() returned)

vars == <<engine, app, keys, scenario, twin, loop, ev>>

Event(op, path, pre, mid, arg) ==
  [op |-> op, path |-> path, pre |-> pre, mid |-> mid, arg |-> arg]

Cleared(e) == [e EXCEPT !.out = <<>>]

\* new Engine(...) and engine.start() in the effect of GameCanvas.
Mount(canvasWidth, canvasHeight, size, sd) ==
  resize(NewEngine(canvasWidth, canvasHeight, SeedOf(sd)), size[1], size[2])

Init ==
  /\ \E sd \in Seeds, size \in WindowSizes : engine = Mount(300, 150, size, sd)
  /\ app = AppInit
  /\ keys = 0
  /\ scenario \in {"hunt", "siege", "hoard", "volley", "warden", "stand", "joust"}
  /\ twin = "none"
  /\ loop = NewGameLoop
  /\ ev = Event("init", "", engine, engine, 0)

\* The user is at the keyboard during the hunt, after the game is over, and
\* in the hoard while a draft is open.
AtKeyboard ==
  /\ keys < MaxKeyEvents
  /\ \/ scenario = "hunt"
     \/ app.gameOver
     \/ scenario = "hoard" /\ engine.draftActive

\* With the warden the user presses and holds the dash key at some moment
\* of the hunt, and clicks in the draft overlay: anywhere until the saw is
\* drafted, on the first option of every draft from then on.  In the joust
\* the user clicks on the first option of every draft.
AtDash ==
  /\ keys < MaxKeyEvents
  /\ scenario = "warden"
  /\ ~engine.draftActive
  /\ ~engine.input.dash
  /\ engine.world.sawLevel = 0

\* In the volley the user taps the dash key: down, up, down.
AtTap == scenario = "volley" /\ keys < MaxDashEvents

AtOverlay ==
  \/ /\ scenario = "warden"
     /\ engine.draftActive
     /\ keys < MaxKeyEvents \/ engine.world.sawLevel > 0
  \/ /\ scenario = "joust"
     /\ engine.draftActive

\* One call of update(dt) by the loop.
Update ==
  /\ engine.world.elapsedSeconds < Horizon(scenario)
  /\ scenario = "warden" /\ engine.world.sawLevel = 0
       => engine.world.elapsedSeconds < HuntElapsed
  /\ scenario = "volley" /\ keys > 0
       => engine.world.elapsedSeconds < TapElapsed
  /\ \E sd \in (IF engine.input.restartMode = "new_seed" THEN Seeds
                ELSE {engine.world.seed.lo}) :
       \E mid \in {UpdateIntents(Cleared(engine), SeedOf(sd))} :
         \E path \in {UpdatePath(mid, app.pauseRef, app.gameOverRef)} :
           \E post \in {UpdateGates(mid, StepMs,
                                    [settings |-> defaultSettings,
                                     geo |-> IF path = "systems"
                                             THEN Scene(mid, scenario) ELSE NoGeo],
                                    app.pauseRef, app.gameOverRef)} :
             /\ engine' = post
             /\ app' = AppCallbacks(app, post.out)
             /\ ev' = Event("update", path, engine, mid,
                            [choice |-> mid.input.draftChoice,
                             isPaused |-> app.pauseRef,
                             isGameOver |-> app.gameOverRef])
  /\ UNCHANGED <<keys, scenario, twin, loop>>

KeyCodes == {"ShiftLeft", "Escape", "KeyR", "Backquote", "Digit1", "Digit2"}

KeyDown ==
  /\ AtKeyboard \/ AtDash \/ (AtTap /\ ~engine.input.dash)
  /\ \E code \in (IF AtDash \/ ~AtKeyboard THEN {"ShiftLeft"} ELSE KeyCodes) :
       /\ engine' = onKeyDown(Cleared(engine), code)
       /\ ev' = Event("keydown", code, engine, engine, 0)
  /\ keys' = keys + 1
  /\ UNCHANGED <<app, scenario, twin, loop>>

KeyUp ==
  /\ AtKeyboard \/ AtTap
  /\ engine.input.dash
  /\ engine' = onKeyUp(Cleared(engine), "ShiftLeft")
  /\ ev' = Event("keyup", "ShiftLeft", engine, engine, 0)
  /\ keys' = keys + 1
  /\ UNCHANGED <<app, scenario, twin, loop>>

\* A click in the draft overlay, or any other caller of the public method;
\* index2 is twice the index, so the odd ones are the non-integer indices.
DraftIndices == {-2, 0, 1, 4, 6}

ChooseDraftOption ==
  /\ AtKeyboard \/ AtOverlay
  /\ \E index2 \in (IF (scenario = "warden" /\ engine.world.sawLevel > 0)
                          \/ scenario = "joust"
                     THEN {0} ELSE DraftIndices) :
       /\ engine' = chooseDraftOption(Cleared(engine), index2)
       /\ app' = AppCallbacks(app, engine'.out)
       /\ ev' = Event("chooseDraftOption", "", engine, engine, index2)
  /\ keys' = keys + 1
  /\ UNCHANGED <<scenario, twin, loop>>

Resize ==
  /\ AtKeyboard
  /\ \E size \in WindowSizes \cup {<<400, 300>>} :
       /\ <<engine.world.width, engine.world.height>> # size
       /\ engine' = resize(Cleared(engine), size[1], size[2])
       /\ ev' = Event("resize", "", engine, engine, 0)
  /\ keys' = keys + 1
  /\ UNCHANGED <<app, scenario, twin, loop>>

\* React commits a render: the refs take the values of the state.
Commit ==
  /\ app # AppCommit(app)
  /\ app' = AppCommit(app)
  /\ ev' = Event("commit", "", engine, engine, 0)
  /\ UNCHANGED <<engine, keys, scenario, twin, loop>>

Next == Update \/ KeyDown \/ KeyUp \/ ChooseDraftOption \/ Resize \/ Commit

Spec == Init /\ [][Next]_vars
\* ------------------------------------------------- the loop on its own

\* performance.now() stops at MaxClock, no frame callback requests the next
\* frame once MaxHandles handles are out, start() and stop() are called
\* MaxLoopCalls times at most, and between start() or a frame callback and
\* the next frame callback time passes by one of Gaps at most.
MaxClock == 75
MaxHandles == 3
MaxLoopCalls == 3
Gaps == {4, 9, 62}

\* What has been seen of the loop: the last operation and the loop before
\* it; for the frame callback that ran last, the accumulator it found, the
\* elapsed time it computed, its update and render calls, the dt values it
\* passed, and whether an update followed a render; whether stop() has
\* returned with no start() since, and whether an update call, a render call
\* or a frame request was made since then (afterStop is 1).
Seen(op, pre, o) == [o EXCEPT !.op = op, !.pre = pre]

AfterCall(o, call) ==
  IF call = "stop" THEN [o EXCEPT !.halted = TRUE, !.afterStop = 0]
  ELSE IF call = "start" THEN [o EXCEPT !.halted = FALSE, !.afterStop = 0]
  ELSE o

Late(o) == IF o.halted THEN [o EXCEPT !.afterStop = 1] ELSE o

LoopInit ==
  /\ loop = NewGameLoop
  /\ ev = [op |-> "new", pre |-> NewGameLoop, acc0 |-> 0, elapsed |-> 0,
           updates |-> 0, renders |-> 0, dts |-> {}, orderBroken |-> FALSE,
           halted |-> FALSE, afterStop |-> 0]
  /\ engine = "none"
  /\ app = "none"
  /\ keys = 0
  /\ scenario = "loop"
  /\ twin = "none"

\* engine.start() / engine.stop() between two frame callbacks; keys counts
\* the start() and stop() calls made so far, by the shell or by a handler.
LoopStart ==
  /\ loop.pc = "idle"
  /\ keys < MaxLoopCalls
  /\ loop' = start(loop)
  /\ ev' = Seen("start", loop, AfterCall(ev, "start"))
  /\ keys' = keys + 1
  /\ UNCHANGED <<engine, app, scenario, twin>>

LoopStop ==
  /\ loop.pc = "idle"
  /\ keys < MaxLoopCalls
  /\ loop' = stop(loop)
  /\ ev' = Seen("stop", loop, AfterCall(ev, "stop"))
  /\ keys' = keys + 1
  /\ UNCHANGED <<engine, app, scenario, twin>>

Wait ==
  /\ loop.pc = "idle"
  /\ loop.now - loop.lastTimestamp <= 1
  /\ \E gap \in Gaps :
       /\ loop.now + gap <= MaxClock
       /\ loop' = [loop EXCEPT !.now = @ + gap]
  /\ ev' = Seen("wait", loop, ev)
  /\ UNCHANGED <<engine, app, keys, scenario, twin>>

\* The browser runs a scheduled callback; its timestamp is the time the
\* frame began, which is performance.now() or a moment before.
Frame ==
  /\ loop.pc = "idle"
  /\ \E handle \in loop.scheduled, skew \in {0, 1} :
       /\ loop.now - skew >= 0
       /\ loop' = FrameBegin(loop, handle, loop.now - skew)
       /\ ev' = [Seen("frame", loop, ev) EXCEPT
                   !.acc0 = loop.accumulator,
                   !.elapsed = (loop.now - skew) - loop.lastTimestamp,
                   !.updates = 0, !.renders = 0, !.dts = {},
                   !.orderBroken = FALSE]
  /\ UNCHANGED <<engine, app, keys, scenario, twin>>

HandlerCalls == {"none", "stop", "start"}

Drain ==
  /\ loop.pc = "drain"
  /\ loop.accumulator >= FIXED_STEP_SECONDS
  /\ \E call \in HandlerCalls :
       /\ call # "none" => keys < MaxLoopCalls
       /\ loop' = FrameUpdate(loop, call)
       /\ ev' = AfterCall([Late(Seen("update", loop, ev)) EXCEPT
                             !.updates = @ + 1,
                             !.dts = @ \cup {FIXED_STEP_SECONDS},
                             !.orderBroken = @ \/ ev.renders > 0],
                          call)
       /\ keys' = IF call = "none" THEN keys ELSE keys + 1
  /\ UNCHANGED <<engine, app, scenario, twin>>

Render ==
  /\ loop.pc = "drain"
  /\ loop.accumulator < FIXED_STEP_SECONDS
  /\ loop.nextHandle <= MaxHandles
  /\ \E call \in HandlerCalls :
       /\ call # "none" => keys < MaxLoopCalls
       /\ loop' = FrameRender(loop, call)
       /\ ev' = Late(AfterCall([Late(Seen("render", loop, ev)) EXCEPT
                                  !.renders = @ + 1],
                               call))
       /\ keys' = IF call = "none" THEN keys ELSE keys + 1
  /\ UNCHANGED <<engine, app, scenario, twin>>

LoopNext == LoopStart \/ LoopStop \/ Wait \/ Frame \/ Drain \/ Render

SpecLoop == LoopInit /\ [][LoopNext]_vars

\* ------------------------------------------------- the busiest frames

\* A run of frames that are as busy as the caps of the engine allow: in each,
\* combatSystem lands a number of critical hits (12 sparks each), then
\* trailSystem and effectsSystem run, as they do at the end of every step of
\* the systems.  The player keeps moving.  dt is the argument of update, in
\* ms: 17 for the fixed step of the loop, 5 for a caller with a shorter step.
\* keys counts the frames.
MaxCapFrames == 100
CapSteps == {5, 17}
CapHits == {0, 3}

RECURSIVE Sparks(_, _)
Sparks(e, hits) ==
  IF hits <= 0 THEN e
  ELSE Sparks(spawnParticles(e, defaultSettings, "spark", 12), hits - 1)

CapInit ==
  /\ \E sd \in Seeds, size \in WindowSizes : engine = Mount(300, 150, size, sd)
  /\ app = AppInit
  /\ keys = 0
  /\ scenario = "cap"
  /\ twin = "none"
  /\ loop = NewGameLoop
  /\ \E dt \in CapSteps, hits \in CapHits :
       ev = Event("init", "", engine, engine, [dt |-> dt, hits |-> hits])

CapFrame ==
  /\ keys < MaxCapFrames
  /\ \E mid \in {Sparks(Cleared(engine), ev.arg.hits)} :
       LET cx == [settings |-> defaultSettings, dt |-> ev.arg.dt,
                  geo |-> [NoGeo EXCEPT !.move = [x |-> 1, y |-> 0]]]
       IN /\ engine' = effectsSystem(trailSystem(mid, ev.arg.dt, cx),
                                     ev.arg.dt, cx)
          /\ ev' = Event("frame", "systems", engine, mid, ev.arg)
  /\ keys' = keys + 1
  /\ UNCHANGED <<app, scenario, twin, loop>>

SpecCap == CapInit /\ [][CapFrame]_vars

\* ------------------------------------------------------ two runs side by side

\* Key events in one behaviour of the pair, and the clock at which the runs
\* are left alone.
MaxPairKeys == 3
PairElapsed == 1600

\* What the second run differs in: nothing ("fresh"), its past ("prelude"
\* while it plays that past, "replay" once restart('same_seed') has been
\* called on it), or one setting.
Variants ==
  {"fresh", "prelude", "screenShake", "showDamageText", "highContrast", "volume",
   "reduceMotion"}

\* What getSettings() returns to the second run.
SettingsOf(variant) ==
  IF variant = "screenShake" THEN [defaultSettings EXCEPT !.screenShake = FALSE]
  ELSE IF variant = "showDamageText" THEN [defaultSettings EXCEPT !.showDamageText = FALSE]
  ELSE IF variant = "highContrast" THEN [defaultSettings EXCEPT !.highContrast = TRUE]
  ELSE IF variant = "volume" THEN [defaultSettings EXCEPT !.volume = 0]
  ELSE IF variant = "reduceMotion" THEN [defaultSettings EXCEPT !.reduceMotion = TRUE]
  ELSE defaultSettings

\* One update(dt) call on engine e, running and not over, with the geometry
\* of the hunt for the world the systems of this call find.
PairStep(e, settings) ==
  UpdateGates(UpdateIntents(Cleared(e), e.world.seed), StepMs,
              [settings |-> settings,
               geo |-> Scene(UpdateIntents(Cleared(e), e.world.seed), "hunt")],
              FALSE, FALSE)

\* The size of the canvas when an engine is constructed on it: the default
\* size of a canvas element (the first engine of the page), or the window's
\* size an earlier engine gave it.
CanvasSizes == {<<300, 150>>} \cup WindowSizes

\* Both engines are constructed on a canvas of the same size, with the same
\* seed, and started.
PairInit ==
  /\ \E sd \in Seeds, size \in WindowSizes, canvas \in CanvasSizes :
       engine = Mount(canvas[1], canvas[2], size, sd)
  /\ twin = engine
  /\ scenario \in Variants
  /\ keys = 0
  /\ app = "none"
  /\ loop = NewGameLoop
  /\ ev = [op |-> "init"]

\* The same update(dt) call on both runs; on the second run alone while it
\* plays its past.
PairUpdate ==
  /\ (IF scenario = "prelude" THEN twin ELSE engine).world.elapsedSeconds < PairElapsed
  /\ \E runs \in {[who \in (IF scenario = "prelude" THEN {"twin"}
                               ELSE {"engine", "twin"}) |->
                      PairStep(IF who = "engine" THEN engine ELSE twin,
                               IF who = "engine" THEN defaultSettings
                               ELSE SettingsOf(scenario))]} :
       /\ engine' = IF scenario = "prelude" THEN engine ELSE runs.engine
       /\ twin' = runs.twin
  /\ ev' = [ev EXCEPT !.op = "update"]
  /\ UNCHANGED <<app, keys, scenario, loop>>

PairKeyCodes == {"ShiftLeft", "Digit1"}

\* The same key event on both runs.
PairKeyDown ==
  /\ scenario # "prelude"
  /\ keys < MaxPairKeys
  /\ \E code \in PairKeyCodes :
       /\ engine' = onKeyDown(Cleared(engine), code)
       /\ twin' = onKeyDown(Cleared(twin), code)
  /\ ev' = [ev EXCEPT !.op = "keydown"]
  /\ keys' = keys + 1
  /\ UNCHANGED <<app, scenario, loop>>

PairKeyUp ==
  /\ scenario # "prelude"
  /\ keys < MaxPairKeys
  /\ engine.input.dash
  /\ engine' = onKeyUp(Cleared(engine), "ShiftLeft")
  /\ twin' = onKeyUp(Cleared(twin), "ShiftLeft")
  /\ ev' = [ev EXCEPT !.op = "keyup"]
  /\ keys' = keys + 1
  /\ UNCHANGED <<app, scenario, loop>>

\* The past of the run that is replayed: key events of its own.
TwinKey ==
  /\ scenario = "prelude"
  /\ keys < MaxPairKeys
  /\ \/ \E code \in PairKeyCodes : twin' = onKeyDown(Cleared(twin), code)
     \/ twin.input.dash /\ twin' = onKeyUp(Cleared(twin), "ShiftLeft")
  /\ ev' = [ev EXCEPT !.op = "twin key"]
  /\ keys' = keys + 1
  /\ UNCHANGED <<engine, app, scenario, loop>>

\* restart('same_seed') on the run that has played, at a moment its
\* controller holds what a new controller holds: from here on the two runs
\* are given the same intents.
Replay ==
  /\ scenario = "prelude"
  /\ twin.input = InputController
  /\ twin' = restart(Cleared(twin), "same_seed", twin.world.seed)
  /\ scenario' = "replay"
  /\ ev' = [ev EXCEPT !.op = "restart"]
  /\ UNCHANGED <<engine, app, keys, loop>>

PairNext == PairUpdate \/ PairKeyDown \/ PairKeyUp \/ TwinKey \/ Replay

SpecPair == PairInit /\ [][PairNext]_vars

\* ------------------------------------------------------------------ C1

\* The part of the world the gameplay systems write.
Gameplay(w) ==
  [elapsedSeconds |-> w.elapsedSeconds, player |-> w.player, enemies |-> w.enemies,
   enemyProjectiles |-> w.enemyProjectiles, playerProjectiles |-> w.playerProjectiles,
   scrap |-> w.scrap, mines |-> w.mines, sawBlades |-> w.sawBlades]

\* The last operation was an update whose gates found a draft active, or
\* isPaused() or isGameOver() true.
GatedUpdate ==
  /\ ev.op = "update"
  /\ ev.mid.draftActive \/ ev.arg.isPaused \/ ev.arg.isGameOver

\* C1: an update call whose gates find a draft active, or isPaused() or
\* isGameOver() true, runs no gameplay system: the clock, the player and the
\* entity collections are after the call what they were before it, or what
\* the restart consumed in the call made them, or what the draft choice
\* consumed in the call made them.
C1_GatedUpdateRunsNoSystem ==
  GatedUpdate =>
    Gameplay(engine.world) =
      Gameplay(IF ev.mid.draftActive /\ ev.arg.choice # -1
               THEN chooseDraftOption(ev.mid, ev.arg.choice * 2).world
               ELSE IF ev.pre.input.restartMode # "null" THEN ev.mid.world
               ELSE ev.pre.world)

\* An update made while paused, with an enemy and projectiles on the field
\* and the weapon due to fire within the step.
C1_Witness ==
  /\ GatedUpdate
  /\ ev.arg.isPaused
  /\ ~ev.mid.draftActive
  /\ Len(engine.world.enemies) > 0
  /\ Len(engine.world.playerProjectiles) > 0
  /\ engine.world.weaponCooldown <= StepMs

\* ------------------------------------------------------------------ C2

Stacks(inventory) ==
  LET Sum[n \in 0..Len(inventory)] ==
        IF n = 0 THEN 0 ELSE Sum[n - 1] + inventory[n].stacks
  IN Sum[Len(inventory)]

\* The last operation was chooseDraftOption(i) with a draft active and i
\* naming an offered option.
ValidChoice ==
  /\ ev.op = "chooseDraftOption"
  /\ ev.pre.draftActive
  /\ ev.arg \in {0, 2, 4}
  /\ (ev.arg \div 2) + 1 <= Len(ev.pre.draftOptions)

\* C2: chooseDraftOption(i) with a draft active and i naming an offered
\* option applies that option's effect once (the world and the inventory are
\* those of one application, the inventory holds one stack more) and leaves
\* the draft inactive with no options; a call made while no draft is active
\* changes nothing.
C2_DraftExactlyOnce ==
  /\ ValidChoice =>
       LET applied == ApplyChoice(Cleared(ev.pre),
                                  ev.pre.draftOptions[(ev.arg \div 2) + 1])
       IN /\ engine.world = applied.world
          /\ engine.inventory = applied.inventory
          /\ Stacks(engine.inventory) = Stacks(ev.pre.inventory) + 1
          /\ ~engine.draftActive
          /\ engine.draftOptions = <<>>
  /\ (ev.op = "chooseDraftOption" /\ ~ev.pre.draftActive) =>
       engine = Cleared(ev.pre)

\* A second call, after the call that closed the draft of level 2.
C2_Witness ==
  /\ ev.op = "chooseDraftOption"
  /\ ~ev.pre.draftActive
  /\ ev.pre.world.level = 2
  /\ Stacks(ev.pre.inventory) = 1
  /\ ev.arg \in {0, 2, 4}

\* ------------------------------------------------------------------ C3

\* C3: chooseDraftOption(i) with i < 0, i > 2, i not an integer, or no
\* option at i is a no-op: the world, the inventory, the draft flag and the
\* options are unchanged and no callback is emitted.
C3_InvalidIndexIsNoOp ==
  (/\ ev.op = "chooseDraftOption"
   /\ \/ ev.arg < 0
      \/ ev.arg > 4
      \/ (ev.arg % 2) # 0
      \/ (ev.arg \div 2) + 1 > Len(ev.pre.draftOptions))
  => /\ engine.world = ev.pre.world
     /\ engine.inventory = ev.pre.inventory
     /\ engine.draftActive = ev.pre.draftActive
     /\ engine.draftOptions = ev.pre.draftOptions
     /\ engine.out = <<>>

\* A call with the index 0.5 while three options are offered.
C3_Witness ==
  /\ ev.op = "chooseDraftOption"
  /\ ev.arg = 1
  /\ ev.pre.draftActive
  /\ Len(ev.pre.draftOptions) = 3

\* ----------------------------------------------------------------- C10

\* The run-scoped fields of the world at the start of a run in an arena of
\* the given size.
FreshRun(width, height) ==
  [elapsedSeconds |-> 0,
   player |-> [x |-> width \div 2, y |-> height \div 2, hp |-> 100000,
               maxHp |-> 100000, radius |-> 12, invulnRemaining |-> 0,
               dashCooldownRemaining |-> 0, moveSpeedMultiplier |-> 1000,
               dashCooldownMultiplier |-> 1000, pickupMagnetMultiplier |-> 1000],
   trail |-> <<>>, dashRings |-> <<>>, enemies |-> <<>>, enemyProjectiles |-> <<>>,
   playerProjectiles |-> <<>>, sawBlades |-> <<>>, mines |-> <<>>, scrap |-> <<>>,
   hitBursts |-> <<>>, damageTexts |-> <<>>, particles |-> <<>>,
   nextEnemyId |-> 1, nextProjectileId |-> 1, nextPickupId |-> 1,
   spawnTimer |-> 800, playerGraceRemaining |-> 0, playerFlashRemaining |-> 0,
   xp |-> 0, level |-> 1, xpToNext |-> 10, enemiesDefeated |-> 0,
   weapon |-> [name |-> "Pulse Blaster", range |-> 460000, damage |-> 12000,
               fireRate |-> 5000, projectileSpeed |-> 520, pierce |-> 1,
               chain |-> 1, critChance |-> 180, knockback |-> 140],
   weaponCooldown |-> 0, arcCoilLevel |-> 0, sawLevel |-> 0, mineLevel |-> 0,
   mineCooldown |-> 2000,
   director |-> [spawnRate |-> 1000, enemySpeed |-> 1000, enemyHp |-> 1000,
                 eliteChance |-> 40],
   wave |-> [active |-> FALSE, label |-> "null", enemyOverride |-> "null",
             endsAt |-> 0, nextAt |-> 90000],
   boss |-> [spawned |-> FALSE, defeated |-> FALSE, id |-> 0]]

RunScoped(w) == [f \in DOMAIN FreshRun(0, 0) |-> w[f]]

\* The last operation was an update that consumed a restart intent; ev.mid
\* is the engine as restart(mode) returned it.
Restarted == ev.op = "update" /\ ev.pre.input.restartMode # "null"

\* C10: when restart(mode) returns, the run-scoped fields of the world are
\* those of a fresh run, hitStop is 0, the inventory is empty and no draft is
\* active, whatever the state before; width and height are carried over, and
\* so is the seed when the mode is 'same_seed'.
C10_RestartIsFullReset ==
  Restarted =>
    /\ RunScoped(ev.mid.world) = FreshRun(ev.pre.world.width, ev.pre.world.height)
    /\ ev.mid.hitStopRemaining = 0
    /\ ev.mid.inventory = <<>>
    /\ ~ev.mid.draftActive
    /\ ev.mid.draftOptions = <<>>
    /\ ev.mid.world.width = ev.pre.world.width
    /\ ev.mid.world.height = ev.pre.world.height
    /\ ev.pre.input.restartMode = "same_seed" => ev.mid.world.seed = ev.pre.world.seed

\* A restart with the same seed, made while the draft of level 2 is open and
\* projectiles are in flight.
C10_Witness ==
  /\ Restarted
  /\ ev.pre.input.restartMode = "same_seed"
  /\ ev.pre.draftActive
  /\ ev.pre.world.level = 2
  /\ Len(ev.pre.world.playerProjectiles) > 0
  /\ Len(ev.pre.world.particles) > 0

\* ------------------------------------------------------------------ C4

\* C4: once no draft is pending, the number of upgrades applied in the run
\* is level - 1: each level-up of a step has had its own draft.
C4_UpgradesMatchLevel ==
  ~engine.draftActive => Stacks(engine.inventory) = engine.world.level - 1

\* ------------------------------------------------------------------ C5

\* A pooled record without the identity of its JS object.
Bare(item) == [f \in (DOMAIN item) \ {"obj"} |-> item[f]]

BareAll(list) == [k \in 1..Len(list) |-> Bare(list[k])]

\* The state of a run: the world (its pooled records by value), the
\* generator with its number of draws, and the engine's run-scoped fields.
RunState(e) ==
  [world |-> [e.world EXCEPT !.playerProjectiles = BareAll(@),
                             !.enemyProjectiles = BareAll(@),
                             !.particles = BareAll(@)],
   random |-> e.random,
   hitStopRemaining |-> e.hitStopRemaining,
   inventory |-> e.inventory,
   draftActive |-> e.draftActive,
   draftOptions |-> e.draftOptions]

\* C5: two runs from the same seed in the same arena, the second new or
\* replayed with restart('same_seed'), given the same settings, intents and
\* update calls, are in the same state after every step: same world, same
\* number of draws.
C5_SameSeedSameRun ==
  scenario \in {"fresh", "replay"} => RunState(engine) = RunState(twin)

\* ------------------------------------------------------------------ C6

\* What C6 calls the outcome: player position and hp, the enemies (type,
\* position, hp, elite flag), the projectiles and xp/level.
Outcome(w) ==
  [player |-> [x |-> w.player.x, y |-> w.player.y, hp |-> w.player.hp],
   enemies |-> [k \in 1..Len(w.enemies) |->
                  [type |-> w.enemies[k].type, spawn |-> w.enemies[k].spawn,
                   hp |-> w.enemies[k].hp, elite |-> w.enemies[k].elite]],
   playerProjectiles |-> BareAll(w.playerProjectiles),
   enemyProjectiles |-> BareAll(w.enemyProjectiles),
   xp |-> w.xp, level |-> w.level]

\* C6: two runs with the same seed and inputs that differ in screenShake,
\* showDamageText, highContrast or volume only have the same outcome after
\* every step.
C6_CosmeticSettingsKeepOutcome ==
  scenario \in {"screenShake", "showDamageText", "highContrast", "volume"} =>
    Outcome(engine.world) = Outcome(twin.world)

\* ------------------------------------------------------------------ C7

\* What C7 compares: the hits on the field with their damage values and crit
\* outcomes, the enemies spawned and what the hits left of them, the count
\* of the defeated, and the player's hp.
Combat(w) ==
  [hits |-> [k \in 1..Len(w.damageTexts) |->
               [value |-> w.damageTexts[k].value, crit |-> w.damageTexts[k].crit]],
   enemies |-> [k \in 1..Len(w.enemies) |->
                  [id |-> w.enemies[k].id, type |-> w.enemies[k].type,
                   spawn |-> w.enemies[k].spawn, hp |-> w.enemies[k].hp,
                   elite |-> w.enemies[k].elite]],
   enemiesDefeated |-> w.enemiesDefeated,
   hp |-> w.player.hp]

\* C7: two runs with the same seed and inputs that differ in reduceMotion
\* only have the same hits, crit outcomes, damage values, enemy spawns and
\* player hp after every step.
C7_ReduceMotionKeepsCombat ==
  scenario = "reduceMotion" => Combat(engine.world) = Combat(twin.world)

\* ------------------------------------------------------------------ C8

\* The whole fixed steps in the accumulator of the frame callback that ran
\* last, once the capped elapsed time is added.
Due ==
  LET total == ev.acc0 + Min(ev.elapsed, MAX_ACCUM_SECONDS)
  IN IF total < 0 THEN 0 ELSE total \div FIXED_STEP_SECONDS

\* C8: a frame callback adds the elapsed time, capped at 0.25 s, to the
\* accumulator, calls update once per whole fixed step in it, each time with
\* the fixed step as dt, and calls render once, after the last update: no
\* update follows the render.
C8_FrameDrainsThenRenders ==
  /\ ev.dts \subseteq {FIXED_STEP_SECONDS}
  /\ ~ev.orderBroken
  /\ loop.pc = "drain" => ev.renders = 0 /\ ev.updates <= Due
  /\ ev.op = "render" =>
       /\ ev.renders = 1
       /\ ev.updates = Due
       /\ loop.accumulator =
            (ev.acc0 + Min(ev.elapsed, MAX_ACCUM_SECONDS))
              - (Due * FIXED_STEP_SECONDS)

\* A frame callback that found more than 0.25 s elapsed has rendered.
C8_Witness ==
  /\ ev.op = "render"
  /\ ev.elapsed > MAX_ACCUM_SECONDS
  /\ ev.updates = 15

\* ------------------------------------------------------------------ C9

\* C9: stop() is idempotent, and once it has returned no update or render
\* call is made and no frame is requested until start() is called, wherever
\* stop() was called from.
C9_StopHalts ==
  /\ (ev.op = "stop" /\ ev.pre.animationFrameId = 0) => loop = ev.pre
  /\ ev.halted => ev.afterStop = 0

\* ----------------------------------------------------------------- C11

\* The last operation was an update that consumed a restart intent while a
\* draft was active.
RestartInDraft == Restarted /\ ev.pre.draftActive

\* C11: after an update that consumed a restart intent while a draft was
\* active, the draft is inactive, no option is offered, onDraftChange(false,
\* []) has been emitted, the new run has no upgrade (a draft choice latched
\* before the restart was not applied), and chooseDraftOption applies
\* nothing, whatever its index.
C11_RestartDropsDraft ==
  RestartInDraft =>
    /\ ~engine.draftActive
    /\ engine.draftOptions = <<>>
    /\ \E i \in 1..Len(engine.out) :
         engine.out[i] = [cb |-> "onDraftChange", arg |-> 0]
    /\ engine.inventory = <<>>
    /\ engine.world.weapon = STARTING_WEAPON
    /\ \A index2 \in DraftIndices : chooseDraftOption(engine, index2) = engine

\* The restart was consumed with three options on offer and a draft choice
\* latched by a key pressed before it.
C11_Witness ==
  /\ RestartInDraft
  /\ Len(ev.pre.draftOptions) = 3
  /\ ev.pre.input.draftChoice # -1

\* ----------------------------------------------------------------- C12

HpInBounds(entity) == 0 <= entity.hp /\ entity.hp <= entity.maxHp

\* C12: after every update, chooseDraftOption and restart the player has
\* 0 <= hp <= maxHp, and so has every enemy in world.enemies.
C12_HpBounds ==
  /\ HpInBounds(engine.world.player)
  /\ \A k \in 1..Len(engine.world.enemies) : HpInBounds(engine.world.enemies[k])

\* An update in which a hit worth more than the hp left took the player to
\* 0, with enemies on the field.
C12_Witness ==
  /\ ev.op = "update"
  /\ ev.pre.world.player.hp > 0
  /\ ev.pre.world.player.hp < 4900
  /\ engine.world.player.hp = 0
  /\ Len(engine.world.enemies) > 0

\* ----------------------------------------------------------------- C13

\* The enemies on the field that the last update created.
Spawned ==
  {k \in 1..Len(engine.world.enemies) :
     engine.world.enemies[k].id >= ev.mid.world.nextEnemyId}

\* The square of the distance between the point an enemy was created at and
\* the player (only movementSystem, the first system of a step, moves the
\* player, so the player is where it was when the enemy was created).
SpawnDistance2(enemy, player) ==
  ((enemy.spawn.x - player.x) * (enemy.spawn.x - player.x))
    + ((enemy.spawn.y - player.y) * (enemy.spawn.y - player.y))

\* C13: every enemy is created at a distance of at least SAFE_SPAWN_RADIUS
\* from the player.
C13_SpawnsAreSafe ==
  ev.op = "update" =>
    \A k \in Spawned :
       SpawnDistance2(engine.world.enemies[k], engine.world.player)
         >= SAFE_SPAWN_RADIUS * SAFE_SPAWN_RADIUS

\* ----------------------------------------------------------------- C14

NoDuplicate(seq) == \A i, j \in 1..Len(seq) : i # j => seq[i] # seq[j]

\* The projectile objects that were in flight when the systems of the last
\* update started, as that update left them: in flight or in the pool.
Flown ==
  LET before == {ev.mid.world.playerProjectiles[k].obj :
                   k \in 1..Len(ev.mid.world.playerProjectiles)}
  IN SelectSeq(engine.world.playerProjectiles \o engine.playerProjectilePool,
               LAMBDA item : item.obj \in before)

\* The hit list the projectile object had when the systems started.
HitsBefore(obj) ==
  LET list == ev.mid.world.playerProjectiles
  IN list[CHOOSE k \in 1..Len(list) : list[k].obj = obj].hitEnemyIds

\* The projectiles that recorded the enemy in the last update.
Hitters(enemyId) ==
  {k \in 1..Len(Flown) :
     /\ InSeq(Flown[k].hitEnemyIds, enemyId)
     /\ ~InSeq(HitsBefore(Flown[k].obj), enemyId)}

ProjectileBefore(obj) ==
  LET list == ev.mid.world.playerProjectiles
  IN list[CHOOSE k \in 1..Len(list) : list[k].obj = obj]

\* The projectiles that hit an enemy in the last update.
HitNow ==
  {k \in 1..Len(Flown) :
     Len(Flown[k].hitEnemyIds) > Len(ProjectileBefore(Flown[k].obj).hitEnemyIds)}

\* C15: a projectile that a hit expired (life = 0) had no pierce left and was
\* not retargeted by that hit (its chain budget is what it was); a hit that
\* retargets the projectile leaves it alive.
C15_RetargetedHitKeepsProjectile ==
  (ev.op = "update" /\ ev.path = "systems") =>
    \A k \in HitNow :
       Flown[k].life = 0 =>
         /\ ProjectileBefore(Flown[k].obj).pierceRemaining = 0
         /\ Flown[k].chainRemaining = ProjectileBefore(Flown[k].obj).chainRemaining

\* ---------------------------------------------------------------- C16
\* The enemies of world w that are a boss.
BossesOf(w) == {k \in 1..Len(w.enemies) : w.enemies[k].isBoss}

\* The bosses on the field that the last update created.
BossesCreated ==
  {k \in BossesOf(engine.world) :
     engine.world.enemies[k].id >= ev.mid.world.nextEnemyId}

\* C16: within a run boss.spawned turns true once, in the first step that
\* runs the systems with elapsedSeconds >= BOSS_TIME, and stays true until
\* restart; that step creates the one boss of the run, and no other step
\* creates a boss, before or after the boss is defeated and removed.
C16_BossSpawnsOnce ==
  /\ ~engine.world.boss.spawned => engine.world.elapsedSeconds < BOSS_TIME
  /\ ev.op # "init" /\ ~Restarted /\ ev.pre.world.boss.spawned
       => engine.world.boss.spawned
  /\ ev.op # "init" /\ ~(ev.op = "update" /\ ev.path = "systems")
       => engine.world.boss.spawned = ev.mid.world.boss.spawned
  /\ ev.op = "update" /\ ev.path = "systems"
       => /\ engine.world.boss.spawned
               <=> \/ ev.mid.world.boss.spawned
                   \/ engine.world.elapsedSeconds >= BOSS_TIME
          /\ Cardinality(BossesCreated)
               = IF ~ev.mid.world.boss.spawned /\ engine.world.boss.spawned
                 THEN 1 ELSE 0
  /\ Cardinality(BossesOf(engine.world)) <= 1
  /\ \A k \in BossesOf(engine.world) :
       /\ engine.world.boss.spawned
       /\ ~engine.world.boss.defeated
       /\ engine.world.enemies[k].id = engine.world.boss.id

\* The systems run on a world whose boss was defeated in an earlier step,
\* and the spawner sends new enemies in.
C16_Witness ==
  /\ ev.op = "update" /\ ev.path = "systems"
  /\ ev.pre.world.boss.spawned /\ ev.pre.world.boss.defeated
  /\ BossesOf(ev.pre.world) = {}
  /\ engine.world.elapsedSeconds > BOSS_TIME
  /\ engine.world.nextEnemyId > ev.mid.world.nextEnemyId
  /\ engine.world.boss.id < ev.mid.world.nextEnemyId

\* ---------------------------------------------------------------- C17
\* ceil(x * 1.3 + 4): the least integer that is at least (13 x + 40) / 10.
CeilThreshold(x) ==
  CHOOSE n \in x..((2 * x) + 5) :
    (10 * n) >= ((13 * x) + 40) /\ (10 * (n - 1)) < ((13 * x) + 40)

\* The threshold x after n level-ups.
RECURSIVE Raised(_, _)
Raised(x, n) == IF n = 0 THEN x ELSE Raised(CeilThreshold(x), n - 1)

\* C17: every operation leaves xpToNext as it was, but for restart and for
\* the level-ups of an update, each of which replaces xpToNext by
\* ceil(xpToNext * 1.3 + 4), a greater value.
C17_ThresholdGrows ==
  ev.op # "init" =>
    /\ ~Restarted => /\ ev.mid.world.xpToNext = ev.pre.world.xpToNext
                     /\ ev.mid.world.level = ev.pre.world.level
    /\ engine.world.level >= ev.mid.world.level
    /\ engine.world.xpToNext
         = Raised(ev.mid.world.xpToNext, engine.world.level - ev.mid.world.level)
    /\ engine.world.level > ev.mid.world.level
         => engine.world.xpToNext > ev.mid.world.xpToNext
    /\ CeilThreshold(engine.world.xpToNext) > engine.world.xpToNext

\* An update takes the player to the third level or beyond: the level-up
\* before it raised the threshold it starts from.
C17_Witness ==
  /\ ev.op = "update" /\ ~Restarted
  /\ engine.world.level > ev.pre.world.level
  /\ engine.world.level >= 3
  /\ ev.pre.world.xpToNext > 10
  /\ engine.world.xpToNext > ev.pre.world.xpToNext

\* ---------------------------------------------------------------- C18
\* The pickups the last update collected: those within reach that had not
\* aged out, as positions in the list the update started from.
Collected ==
  {k \in 1..Len(ev.mid.world.scrap) :
     /\ ev.mid.world.scrap[k].id \in Scene(ev.mid, scenario).collect
     /\ ev.mid.world.scrap[k].life > StepMs}

CollectedValue ==
  LET scrap == ev.mid.world.scrap
      Sum[n \in 0..Len(scrap)] ==
        IF n = 0 THEN 0
        ELSE Sum[n - 1] + (IF n \in Collected THEN scrap[n].value ELSE 0)
  IN Sum[Len(scrap)]

\* What n level-ups from threshold x subtract from xp.
RECURSIVE Crossed(_, _)
Crossed(x, n) == IF n = 0 THEN 0 ELSE x + Crossed(CeilThreshold(x), n - 1)

\* Where the pickup with this id is in the list of world w.
PickupAt(w, id) == {k \in 1..Len(w.scrap) : w.scrap[k].id = id}

\* C18: an update that runs the systems adds the value of every pickup it
\* collects to xp once and removes the pickup, keeps the others that have
\* not aged out, subtracts the threshold of every level gained, and leaves
\* 0 <= xp < xpToNext with a draft open if a level was gained; the
\* threshold is positive, so the level-up loop ends.
C18_PickupAddsValueOnce ==
  /\ 0 <= engine.world.xp
  /\ engine.world.xp < engine.world.xpToNext
  /\ engine.world.xpToNext > 0
  /\ ev.op = "update" /\ ev.path = "systems"
       => /\ engine.world.xp
                + Crossed(ev.mid.world.xpToNext,
                          engine.world.level - ev.mid.world.level)
               = ev.mid.world.xp + CollectedValue
          /\ \A k \in 1..Len(ev.mid.world.scrap) :
               LET pickup == ev.mid.world.scrap[k]
                   after == PickupAt(engine.world, pickup.id)
               IN IF k \in Collected \/ pickup.life <= StepMs
                  THEN after = {}
                  ELSE /\ Cardinality(after) = 1
                       /\ \A j \in after :
                            engine.world.scrap[j]
                              = [pickup EXCEPT !.life = @ - StepMs]
          /\ engine.world.level > ev.mid.world.level => engine.draftActive

\* An update collects pickups whose value takes a player with xp in hand
\* over the threshold, with xp to spare.
C18_Witness ==
  /\ ev.op = "update" /\ ev.path = "systems"
  /\ Collected # {}
  /\ ev.mid.world.xp > 0
  /\ engine.world.level = ev.mid.world.level + 1
  /\ engine.world.xp > 0
  /\ engine.draftActive

\* ---------------------------------------------------------------- C19
\* The ids of a list of choices, in order.
IdsOf(choices) == [k \in 1..Len(choices) |-> choices[k].id]

\* The hazards, with the world field that holds the level of each and the
\* ids of its two pool entries.
Hazards ==
  {[level |-> "arcCoilLevel", unlock |-> "unlock-arc", upgrade |-> "up-arc"],
   [level |-> "sawLevel", unlock |-> "unlock-saw", upgrade |-> "up-saw"],
   [level |-> "mineLevel", unlock |-> "unlock-mine", upgrade |-> "up-mine"]}

\* C19: an open draft has three options with three different ids, each an
\* entry of the pool of the current world; the ids of the pool are all
\* different, and for each hazard the pool has the unlock entry exactly
\* when the level is 0 and the upgrade entry exactly when it is above 0.
C19_DraftOptions ==
  LET Offered(pool) ==
        /\ NoDuplicate(IdsOf(pool))
        /\ \A hazard \in Hazards :
             /\ InSeq(IdsOf(pool), hazard.unlock)
                  <=> engine.world[hazard.level] = 0
             /\ InSeq(IdsOf(pool), hazard.upgrade)
                  <=> engine.world[hazard.level] > 0
        /\ engine.draftActive
             => /\ Len(engine.draftOptions) = 3
                /\ NoDuplicate(IdsOf(engine.draftOptions))
                /\ \A k \in 1..3 : InSeq(pool, engine.draftOptions[k])
  IN Offered(createUpgradePool(engine.world))

\* A draft is open for a player who has the saw: it offers the saw's
\* upgrade and the unlock of a hazard the player does not have.
C19_Witness ==
  /\ engine.draftActive
  /\ engine.world.sawLevel > 0
  /\ engine.world.mineLevel = 0
  /\ InSeq(IdsOf(engine.draftOptions), "up-saw")
  /\ InSeq(IdsOf(engine.draftOptions), "unlock-mine")

\* ---------------------------------------------------------------- C20
\* The positions of the entries of an inventory that have this id.
EntriesOf(inventory, id) == {k \in 1..Len(inventory) : inventory[k].id = id}

\* The stacks an inventory holds under this id: 0 if it has no such entry.
StacksOf(inventory, id) ==
  LET Sum[n \in 0..Len(inventory)] ==
        IF n = 0 THEN 0
        ELSE Sum[n - 1] + (IF inventory[n].id = id THEN inventory[n].stacks ELSE 0)
  IN Sum[Len(inventory)]

\* C20: after chooseDraftOption has applied the option with id X the
\* inventory has one entry with id X, with one stack more than it held
\* under X before (1 if it held none), and every other entry is as it was.
C20_ChoiceRecordedUnderItsId ==
  ValidChoice =>
    LET chosen == ev.pre.draftOptions[(ev.arg \div 2) + 1]
        ids == {ev.pre.inventory[k].id : k \in 1..Len(ev.pre.inventory)}
                 \cup {engine.inventory[k].id : k \in 1..Len(engine.inventory)}
    IN /\ Cardinality(EntriesOf(engine.inventory, chosen.id)) = 1
       /\ StacksOf(engine.inventory, chosen.id)
            = StacksOf(ev.pre.inventory, chosen.id) + 1
       /\ \A id \in ids \ {chosen.id} :
            /\ Cardinality(EntriesOf(engine.inventory, id))
                 = Cardinality(EntriesOf(ev.pre.inventory, id))
            /\ StacksOf(engine.inventory, id) = StacksOf(ev.pre.inventory, id)

\* ---------------------------------------------------------------- C21
\* The enemies the last update removed, as positions in the list it started
\* from.
Gone ==
  {k \in 1..Len(ev.mid.world.enemies) :
     \A j \in 1..Len(engine.world.enemies) :
        engine.world.enemies[j].id # ev.mid.world.enemies[k].id}

\* The number of pickups spawnScrap drops for an enemy.
DropsOf(enemy) ==
  IF enemy.isBoss THEN 28
  ELSE IF enemy.type = "ram" THEN 4
  ELSE IF enemy.type = "shard" THEN 3 ELSE 2

\* The pickups dropped for the enemies at the positions in set.
DropsFor(set) ==
  LET enemies == ev.mid.world.enemies
      Sum[n \in 0..Len(enemies)] ==
        IF n = 0 THEN 0
        ELSE Sum[n - 1] + (IF n \in set THEN DropsOf(enemies[n]) ELSE 0)
  IN Sum[Len(enemies)]

\* C21: no state holds an enemy with hp <= 0, and every enemy created in the
\* run is either on the field or counted in enemiesDefeated, once; an update
\* that runs the systems counts each enemy it removes once and drops that
\* enemy's scrap once, every dropped pickup being in world.scrap under its
\* own id when the step ends; no other operation removes or counts an enemy.
C21_DefeatedRemovedSameStep ==
  /\ \A k \in 1..Len(engine.world.enemies) : engine.world.enemies[k].hp > 0
  /\ engine.world.enemiesDefeated + Len(engine.world.enemies)
       = engine.world.nextEnemyId - 1
  /\ ev.op = "update" /\ ev.path = "systems"
       => /\ engine.world.enemiesDefeated
               = ev.mid.world.enemiesDefeated + Cardinality(Gone)
          /\ engine.world.nextPickupId
               = ev.mid.world.nextPickupId + DropsFor(Gone)
          /\ \A id \in ev.mid.world.nextPickupId..(engine.world.nextPickupId - 1) :
               Cardinality(PickupAt(engine.world, id)) = 1
  /\ ev.op # "init" /\ ~(ev.op = "update" /\ ev.path = "systems")
       => /\ engine.world.enemies = ev.mid.world.enemies
          /\ engine.world.enemiesDefeated = ev.mid.world.enemiesDefeated

\* One update defeats two enemies of different kinds at once and drops the
\* scrap of both.
C21_Witness ==
  /\ ev.op = "update" /\ ev.path = "systems"
  /\ \E k, j \in Gone :
       DropsOf(ev.mid.world.enemies[k]) # DropsOf(ev.mid.world.enemies[j])
  /\ engine.world.enemiesDefeated = ev.mid.world.enemiesDefeated + Cardinality(Gone)
  /\ engine.world.enemies # <<>>

\* ---------------------------------------------------------------- C22
\* The ids of the records of a list.
ListIds(list) == {list[k].id : k \in 1..Len(list)}

\* The ids of a list go up along the list and stay below the counter.
Ascending(list, counter) ==
  /\ \A k \in 1..Len(list) : list[k].id >= 1 /\ list[k].id < counter
  /\ \A k \in 1..(Len(list) - 1) : list[k].id < list[k + 1].id

\* The ids taken from nextProjectileId that are in use in world w.
NumberedIds(w) ==
  ListIds(w.playerProjectiles) \cup ListIds(w.enemyProjectiles)
    \cup ListIds(w.mines) \cup ListIds(w.sawBlades)

\* C22: in every state the ids of the enemies, of the pickups and of the
\* records numbered by nextProjectileId are below their counter, go up along
\* each list and are shared by no two records, of one list or of two; within
\* a run no counter goes down, and an id below the counter an operation
\* started from is the id of a record that was there before the operation,
\* in the same list: a new record, pooled or not, never takes an old id.
C22_IdsUniqueAndIncreasing ==
  LET w == engine.world IN
  /\ Ascending(w.enemies, w.nextEnemyId)
  /\ Ascending(w.scrap, w.nextPickupId)
  /\ Ascending(w.playerProjectiles, w.nextProjectileId)
  /\ Ascending(w.enemyProjectiles, w.nextProjectileId)
  /\ Ascending(w.mines, w.nextProjectileId)
  /\ Ascending(w.sawBlades, w.nextProjectileId)
  /\ Cardinality(NumberedIds(w))
       = Len(w.playerProjectiles) + Len(w.enemyProjectiles)
           + Len(w.mines) + Len(w.sawBlades)
  /\ ev.op # "init"
       => LET m == ev.mid.world
              Old(list, before, counter) ==
                \A id \in ListIds(list) : id < counter => id \in ListIds(before)
          IN /\ w.nextEnemyId >= m.nextEnemyId
             /\ w.nextPickupId >= m.nextPickupId
             /\ w.nextProjectileId >= m.nextProjectileId
             /\ Old(w.enemies, m.enemies, m.nextEnemyId)
             /\ Old(w.scrap, m.scrap, m.nextPickupId)
             /\ Old(w.playerProjectiles, m.playerProjectiles, m.nextProjectileId)
             /\ Old(w.enemyProjectiles, m.enemyProjectiles, m.nextProjectileId)
             /\ Old(w.mines, m.mines, m.nextProjectileId)
             /\ Old(w.sawBlades, m.sawBlades, m.nextProjectileId)

\* A player projectile is fired from a pooled record whose last id was
\* another one, while an enemy projectile and a saw blade are in flight.
C22_Witness ==
  /\ ev.op = "update" /\ ev.path = "systems"
  /\ ev.mid.playerProjectilePool # <<>>
  /\ \E k \in 1..Len(engine.world.playerProjectiles) :
       /\ engine.world.playerProjectiles[k].id >= ev.mid.world.nextProjectileId
       /\ engine.world.playerProjectiles[k].obj
            = ev.mid.playerProjectilePool[Len(ev.mid.playerProjectilePool)].obj
       /\ engine.world.playerProjectiles[k].id
            # ev.mid.playerProjectilePool[Len(ev.mid.playerProjectilePool)].id
  /\ engine.world.enemyProjectiles # <<>>
  /\ engine.world.sawBlades # <<>>

\* ---------------------------------------------------------------- C23
\* The raw damage of the hits the combat system of the last update applied,
\* in order: one per enemy in contact whose contact cooldown has run out,
\* then one per enemy projectile that struck the player.
ContactHits ==
  LET enemies == ev.mid.world.enemies
      geo == Scene(ev.mid, scenario)
      hitting == SelectSeq(enemies,
                           LAMBDA enemy : /\ enemy.contactCooldown <= StepMs
                                          /\ enemy.id \in geo.contact)
  IN [k \in 1..Len(hitting) |->
        IF hitting[k].isBoss THEN 28000
        ELSE IF hitting[k].type = "ram" THEN 24000 ELSE 14000]

StruckHits ==
  LET geo == Scene(ev.mid, scenario)
      striking == SelectSeq(ev.mid.world.enemyProjectiles,
                            LAMBDA projectile : /\ projectile.life > StepMs
                                                /\ projectile.id \notin geo.exit
                                                /\ projectile.id \in geo.struck)
  IN [k \in 1..Len(striking) |-> 10000]

HitsOfStep == ContactHits \o StruckHits

\* Whether the movement system of the last update performed a dash.
DashedInStep ==
  /\ ev.mid.input.dash \/ ev.mid.input.touchDash
  /\ ~ev.mid.input.dashWasPressed
  /\ ev.mid.world.player.dashCooldownRemaining <= StepMs

\* The player as the first hit of the last update finds it.
BeforeHits ==
  [hp |-> ev.mid.world.player.hp,
   grace |-> Max(0, ev.mid.world.playerGraceRemaining - StepMs),
   invuln |-> IF DashedInStep THEN DASH_INVULN
              ELSE Max(0, ev.mid.world.player.invulnRemaining - StepMs)]

\* One hit of raw damage d as the claim states it, and with the case of a
\* player whose hp is already 0 added.
HitAsStated(p, d) ==
  IF p.invuln > 0 THEN p
  ELSE [p EXCEPT !.hp = Max(0, @ - (IF p.grace > 0 THEN (d * 350) \div 1000 ELSE d)),
                 !.grace = 500]

HitAmended(p, d) == IF p.hp <= 0 THEN p ELSE HitAsStated(p, d)

AfterHitsAsStated ==
  LET hits == HitsOfStep
      After[n \in 0..Len(hits)] ==
        IF n = 0 THEN BeforeHits ELSE HitAsStated(After[n - 1], hits[n])
  IN After[Len(hits)]

AfterHitsAmended ==
  LET hits == HitsOfStep
      After[n \in 0..Len(hits)] ==
        IF n = 0 THEN BeforeHits ELSE HitAmended(After[n - 1], hits[n])
  IN After[Len(hits)]

\* The player when the last update ended.
PlayerNow ==
  [hp |-> engine.world.player.hp,
   grace |-> engine.world.playerGraceRemaining,
   invuln |-> engine.world.player.invulnRemaining]

\* C23: the hits of an update that runs the systems leave hp, the grace
\* window and the dash invulnerability as the rule gives them, hit by hit:
\* a hit during dash invulnerability or on a player whose hp is 0 changes
\* nothing; any other hit takes d off hp outside the grace window and
\* 0.35 d inside it, not below 0, and sets the grace window to 0.5 s; no hit
\* changes invulnRemaining.
C23_HitLaw ==
  ev.op = "update" /\ ev.path = "systems" => PlayerNow = AfterHitsAmended

\* An update in which two enemies hit a player who was outside the grace
\* window: the first hit takes its full damage, the second 0.35 of it.
C23_Witness ==
  /\ ev.op = "update" /\ ev.path = "systems"
  /\ Len(HitsOfStep) >= 2
  /\ BeforeHits.invuln = 0
  /\ BeforeHits.grace = 0
  /\ engine.world.player.hp
       = BeforeHits.hp - HitsOfStep[1] - ((HitsOfStep[2] * 350) \div 1000)
  /\ engine.world.player.hp > 0
  /\ engine.world.playerGraceRemaining = 500

\* C23 as stated: every hit outside dash invulnerability sets the grace
\* window to 0.5 s, also one on a player whose hp is 0.
C23_HitLawAsStated ==
  ev.op = "update" /\ ev.path = "systems" => PlayerNow = AfterHitsAsStated

\* ---------------------------------------------------------------- C24
\* The dash pulse of the last update: what consumeDashPressedEdge returned to
\* the movement system, FALSE when the systems did not run.
DashPulse ==
  /\ ev.op = "update" /\ ev.path = "systems"
  /\ ev.mid.input.dash \/ ev.mid.input.touchDash
  /\ ~ev.mid.input.dashWasPressed

\* C24: a press of the dash key gives one dash pulse.  Not two: a step that
\* runs the systems leaves the latch equal to the state of the key, so that
\* a key held down gives no second pulse, and no other operation touches the
\* latch.  Not none: when the key is released, a step has seen it pressed.
C24_OnePulsePerPress ==
  /\ (ev.op = "update" /\ ev.path = "systems")
       => (engine.input.dashWasPressed
             = (ev.mid.input.dash \/ ev.mid.input.touchDash))
  /\ (ev.op # "init" /\ ~(ev.op = "update" /\ ev.path = "systems"))
       => (engine.input.dashWasPressed = ev.pre.input.dashWasPressed)
  /\ (ev.op = "keyup" /\ ev.path = "ShiftLeft" /\ ev.pre.input.dash)
       => ev.pre.input.dashWasPressed

\* ---------------------------------------------------------------- C25
\* dashCooldownRemaining as the dash test of the last update finds it.
CooldownAtTest == Max(0, ev.mid.world.player.dashCooldownRemaining - StepMs)

\* C25: a step dashes exactly when its pulse is true and the cooldown, once
\* the step is taken off it, is 0; the dash sets invulnRemaining to
\* DASH_INVULN and the cooldown to DASH_COOLDOWN * dashCooldownMultiplier.
\* Without a dash the step takes its length off both, as it adds it to
\* the simulation clock, and leaves the latch set, so that the dropped pulse
\* is gone; no other operation changes the cooldown or the clock.
C25_DashOnlyAfterCooldown ==
  LET p == engine.world.player
      before == ev.mid.world.player
  IN /\ (ev.op = "update" /\ ev.path = "systems")
          => /\ engine.world.elapsedSeconds = ev.mid.world.elapsedSeconds + StepMs
             /\ IF DashPulse /\ CooldownAtTest = 0
                THEN /\ p.invulnRemaining = DASH_INVULN
                     /\ p.dashCooldownRemaining
                          = Scale(DASH_COOLDOWN, before.dashCooldownMultiplier)
                ELSE /\ p.invulnRemaining = Max(0, before.invulnRemaining - StepMs)
                     /\ p.dashCooldownRemaining = CooldownAtTest
                     /\ DashPulse => engine.input.dashWasPressed
     /\ (ev.op # "init" /\ ~(ev.op = "update" /\ ev.path = "systems"))
          => /\ p.dashCooldownRemaining = before.dashCooldownRemaining
             /\ p.invulnRemaining = before.invulnRemaining
             /\ engine.world.elapsedSeconds = ev.mid.world.elapsedSeconds

\* The second dash of a run, in the step that ends the cooldown of the first.
C25_Witness ==
  /\ DashPulse
  /\ ev.mid.world.player.dashCooldownRemaining > 0
  /\ CooldownAtTest = 0
  /\ engine.world.player.dashCooldownRemaining = DASH_COOLDOWN
  /\ engine.world.elapsedSeconds >= DASH_COOLDOWN

\* ---------------------------------------------------------------- C26
\* The override of the k-th scheduled wave event: glider, shard and ram in
\* turn, by the index floor(t / WAVE_INTERVAL) % 3 of its start.
WaveType(k) == IF k % 3 = 0 THEN "glider" ELSE IF k % 3 = 1 THEN "shard" ELSE "ram"

\* The simulation clock is within the WAVE_DURATION of the k-th wave event.
InWave(k) ==
  /\ engine.world.elapsedSeconds >= k * WAVE_INTERVAL
  /\ engine.world.elapsedSeconds < (k * WAVE_INTERVAL) + WAVE_DURATION

\* The wave event of this moment is on, with its override.
WaveInForce(k) ==
  /\ engine.world.wave.active
  /\ engine.world.wave.enemyOverride = WaveType(k)

\* C26: from the start of a scheduled wave event (every WAVE_INTERVAL of the
\* simulation clock) and for WAVE_DURATION, wave.active is true and
\* wave.enemyOverride is the type of the event; the event at BOSS_TIME
\* (the fourth) is one of them.
C26_WaveLastsItsDuration ==
  \A k \in 1..(WardenElapsed \div WAVE_INTERVAL) : InWave(k) => WaveInForce(k)

\* ---------------------------------------------------------------- C27
\* The last update ran the systems and its spawner fired.
SpawnerFired ==
  /\ ev.op = "update" /\ ev.path = "systems"
  /\ ev.mid.world.spawnTimer <= StepMs

\* The director of the last update sent the boss in.
BossEntered ==
  /\ ev.op = "update" /\ ev.path = "systems"
  /\ ~ev.mid.world.boss.spawned /\ engine.world.boss.spawned

\* The bosses the last update found on the field, alive.
BossBefore ==
  {k \in BossesOf(ev.mid.world) : ev.mid.world.enemies[k].hp > 0}

\* The adds the boss of the last update summoned: 1 + phase of them when its
\* bossSpawnCooldown ran out in the step (a boss that has just entered has
\* 6 s to go).
BossAdds ==
  IF BossBefore = {} THEN 0
  ELSE LET b == ev.mid.world.enemies[CHOOSE k \in BossBefore : TRUE]
           phase == IF (b.hp * 100) < (b.maxHp * 33) THEN 3
                    ELSE IF (b.hp * 100) < (b.maxHp * 66) THEN 2 ELSE 1
       IN IF b.bossSpawnCooldown - StepMs <= 0 THEN 1 + phase ELSE 0

\* The enemies the spawner of the last update added: every enemy takes the
\* next enemy id, and the boss and its adds are the only others.
SpawnerAdded ==
  (engine.world.nextEnemyId - ev.mid.world.nextEnemyId)
    - (IF BossEntered THEN 1 ELSE 0) - BossAdds

\* C27: a spawner that fires adds 1 enemy while a boss with hp > 0 is on the
\* field; with no boss it adds 1 or 2 when no wave is active, and at least 1
\* during a wave.  (With no boss on the field the wave flag the spawner saw
\* is the one the step ends with.)
C27_SpawnCount ==
  SpawnerFired =>
    IF BossEntered \/ BossBefore # {} THEN SpawnerAdded = 1
    ELSE IF ~engine.world.wave.active THEN SpawnerAdded \in {1, 2}
    ELSE SpawnerAdded >= 1

\* ---------------------------------------------------------------- C28
\* The positions in the calls of the last operation that are a call of cb.
CallsOf(cb) == {k \in 1..Len(engine.out) : engine.out[k].cb = cb}

\* C28: whatever path an update call takes, it calls onHudChange and
\* onDebugChange, and the last two calls it makes are these two.
C28_UpdateEmitsHudAndDebug ==
  ev.op = "update" =>
    /\ CallsOf("onHudChange") # {}
    /\ CallsOf("onDebugChange") # {}
    /\ {Len(engine.out) - 1, Len(engine.out)}
         \subseteq (CallsOf("onHudChange") \cup CallsOf("onDebugChange"))

\* ---------------------------------------------------------------- C29
\* The hp of the player as the last operation found it: for an update, once
\* a restart asked for has been made.
HpBefore == ev.mid.world.player.hp

\* C29: within a run, an operation that finds the player at hp 0 leaves it
\* at hp 0: the update calls on every path and the chooseDraftOption calls
\* as well.
C29_GameOverIsTerminal ==
  (ev.op # "init" /\ HpBefore <= 0) => engine.world.player.hp = 0

\* ---------------------------------------------------------------- C30
\* C30: the closure variable of the engine's generator is an unsigned 32-bit
\* value after every call (nothing of it lies above 2^32), and the integer
\* the last call returned, before the division by 2^32, is in [0, 2^32).
C30_StateStaysUint32 ==
  /\ engine.random.top = 0
  /\ engine.random.hi \in 0..(W16 - 1) /\ engine.random.lo \in 0..(W16 - 1)
  /\ \A out \in {RngOut(engine.random)} :
       out.hi \in 0..(W16 - 1) /\ out.lo \in 0..(W16 - 1)

\* ---------------------------------------------------------------- C31
\* The last update ran the systems and left a draft open.
DraftOpened ==
  /\ ev.op = "update" /\ ev.path = "systems"
  /\ engine.draftActive

\* C31: a draft choice keyed in while no draft is active selects nothing
\* later: when a step opens a draft, no choice from before is waiting in the
\* input controller for the next update to apply.
C31_NoStaleDraftChoice ==
  DraftOpened => (engine.input.draftChoice = -1)

\* ---------------------------------------------------------------- C32
\* C32: once an update has consumed a restart intent, the run it started is
\* not held by game over: the call itself is not stopped at the game-over
\* gate, and the shell is not in the game-over state the later calls read.
C32_RestartLiftsGameOver ==
  Restarted => /\ ~(ev.path = "gate" /\ ev.arg.isGameOver)
               /\ ~app.gameOver

\* ---------------------------------------------------------------- C33
\* The rams of an engine, and the ram of the engine the last step began with
\* that has the id of n.
Rams(e) ==
  {e.world.enemies[k] : k \in {j \in 1..Len(e.world.enemies) :
                                  e.world.enemies[j].type = "ram"}}

RamBefore(n) == {m \in Rams(ev.mid) : m.id = n.id}

WindupStarted(m, n) == n.windupRemaining > m.windupRemaining
ChargeStarted(m, n) == n.chargeRemaining > m.chargeRemaining

\* C33: a ram goes idle -> windup -> charge -> idle.  Its windup and its
\* charge never run together; a charge starts only in the step in which a
\* running windup reaches 0; a windup starts only from idle (both timers 0)
\* when the step brings chargeCooldown to 0 or below and the player is
\* within 420; a running windup (at most 750) and a running charge (at most
\* 420) lose the step's dt in every step of the systems, so each ends after
\* a bounded number of steps; a ram enters the field idle, and no operation
\* other than a step of the systems touches the timers.
C33_RamCycle ==
  /\ \A n \in Rams(engine) :
       /\ ~(n.windupRemaining > 0 /\ n.chargeRemaining > 0)
       /\ n.windupRemaining \in 0..750
       /\ n.chargeRemaining \in 0..420
       /\ (RamBefore(n) = {}) =>
            (n.windupRemaining = 0 /\ n.chargeRemaining = 0)
  /\ (ev.op = "update" /\ ev.path = "systems") =>
       (\A n \in Rams(engine) : \A m \in RamBefore(n) :
          /\ ChargeStarted(m, n) =>
               (/\ m.windupRemaining > 0
                /\ m.windupRemaining - StepMs <= 0
                /\ n.windupRemaining = 0)
          /\ WindupStarted(m, n) =>
               (/\ m.windupRemaining = 0
                /\ m.chargeRemaining = 0
                /\ m.chargeCooldown - StepMs <= 0
                /\ n.id \in Scene(ev.mid, scenario).near)
          /\ (~WindupStarted(m, n)) =>
               (n.windupRemaining = Max(0, m.windupRemaining - StepMs))
          /\ (~ChargeStarted(m, n)) =>
               (n.chargeRemaining = Max(0, m.chargeRemaining - StepMs)))
  /\ (~(ev.op = "update" /\ ev.path = "systems") /\ ~Restarted) =>
       (Rams(engine) = Rams(ev.mid))

\* A ram lunges in the step its windup runs out while another ram is still
\* winding up.
C33_Witness ==
  /\ ev.op = "update" /\ ev.path = "systems"
  /\ \E n \in Rams(engine) : \E m \in RamBefore(n) :
       /\ ChargeStarted(m, n)
       /\ \E o \in Rams(engine) : o.id # n.id /\ o.windupRemaining > 0

\* ---------------------------------------------------------------- C34
\* The values the code asks the alloc functions for: autoFireSystem for a
\* shot of the player, the shard and the boss for an enemy projectile,
\* spawnParticles for a particle.
ShotBase(e) ==
  [id |-> e.world.nextProjectileId, life |-> 1800,
   damage |-> e.world.weapon.damage,
   pierceRemaining |-> e.world.weapon.pierce,
   chainRemaining |-> e.world.weapon.chain + e.world.arcCoilLevel,
   critChance |-> e.world.weapon.critChance,
   knockback |-> e.world.weapon.knockback]

EnemyShotBases(e) ==
  {[id |-> e.world.nextProjectileId, radius |-> radius,
    life |-> ENEMY_PROJECTILE_LIFE, maxLife |-> ENEMY_PROJECTILE_LIFE] :
     radius \in {6000, 7000}}

ParticleBases ==
  {[kind |-> kind, life |-> ParticleLife(kind)] :
     kind \in {"spark", "xp", "dash", "bloom"}}

\* item has the fields of base with the values of base, the fields of rest
\* with the values of rest, the identity of its object, and nothing else.
AsRequested(item, base, rest) ==
  /\ DOMAIN item = (DOMAIN base \cup DOMAIN rest) \cup {"obj"}
  /\ \A f \in DOMAIN base : item[f] = base[f]
  /\ \A f \in DOMAIN rest : item[f] = rest[f]

\* The objects of a pool, and the records of a live list that the last step
\* took from the pool.
PoolObjs(pool) == {pool[k].obj : k \in 1..Len(pool)}

Reused(list, pool) ==
  {list[k] : k \in {j \in 1..Len(list) : list[j].obj \in PoolObjs(pool)}}

\* C34: a record taken from a pool carries nothing over from its previous
\* use.  Whatever the pools hold, each alloc function returns a record whose
\* fields all have the requested values, with an empty trail, an empty
\* hitEnemyIds (player projectiles) and age 0 (particles); and a record the
\* last step took from a pool shows only what that step did to it: a new id,
\* at most the one trail point of the step, hits of this step only, the age
\* of one step.
C34_PooledRecordsAreFresh ==
  /\ AsRequested(allocPlayerProjectile(engine, ShotBase(engine)).item,
                 ShotBase(engine), [trail |-> <<>>, hitEnemyIds |-> <<>>])
  /\ \A base \in EnemyShotBases(engine) :
       AsRequested(allocEnemyProjectile(engine, base).item, base,
                   [trail |-> <<>>])
  /\ \A base \in ParticleBases :
       AsRequested(allocParticle(engine, base).item, base, [age |-> 0])
  /\ (ev.op = "update" /\ ev.path = "systems") =>
       (/\ \A p \in Reused(engine.world.playerProjectiles,
                            ev.mid.playerProjectilePool) :
             /\ p.id >= ev.mid.world.nextProjectileId
             /\ p.life = 1800 - StepMs
             /\ Len(p.trail) <= 1
             /\ \A k \in 1..Len(p.hitEnemyIds) :
                  <<p.id, p.hitEnemyIds[k]>> \in Scene(ev.mid, scenario).shot
        /\ \A p \in Reused(engine.world.enemyProjectiles,
                            ev.mid.enemyProjectilePool) :
             /\ p.id >= ev.mid.world.nextProjectileId
             /\ p.life = ENEMY_PROJECTILE_LIFE - StepMs
             /\ p.maxLife = ENEMY_PROJECTILE_LIFE
             /\ Len(p.trail) <= 1
        /\ \A p \in Reused(engine.world.particles, ev.mid.particlePool) :
             /\ p.age = StepMs
             /\ p.life = ParticleLife(p.kind))

\* The last step fired a shot with a record that an earlier run released:
\* in the pool it still had the id, the hits and the trail of that run.
C34_Witness ==
  /\ ev.op = "update" /\ ev.path = "systems"
  /\ \E p \in Reused(engine.world.playerProjectiles,
                      ev.mid.playerProjectilePool) :
       \E k \in 1..Len(ev.mid.playerProjectilePool) :
          /\ ev.mid.playerProjectilePool[k].obj = p.obj
          /\ ev.mid.playerProjectilePool[k].id >= ev.mid.world.nextProjectileId
          /\ ev.mid.playerProjectilePool[k].hitEnemyIds # <<>>
          /\ ev.mid.playerProjectilePool[k].trail # <<>>

\* ---------------------------------------------------------------- C35
\* The objects of a list of records, one entry per record.
ObjsOf(list) == [k \in 1..Len(list) |-> list[k].obj]

\* A pool and its live list are safe when no object is in either twice and
\* none is in both.
PoolSafe(live, pool) == NoDuplicate(ObjsOf(live) \o ObjsOf(pool))

\* C35: in every reachable state no record is both in a pool and in the
\* corresponding live list, none is twice in a pool and none is twice in a
\* live list, so the record an alloc function hands out is never one that
\* is still live.
C35_PoolSafety ==
  /\ PoolSafe(engine.world.playerProjectiles, engine.playerProjectilePool)
  /\ PoolSafe(engine.world.enemyProjectiles, engine.enemyProjectilePool)
  /\ PoolSafe(engine.world.particles, engine.particlePool)
  /\ allocPlayerProjectile(engine, ShotBase(engine)).item.obj
       \notin PoolObjs(engine.world.playerProjectiles)
  /\ \A base \in EnemyShotBases(engine) :
       allocEnemyProjectile(engine, base).item.obj
         \notin PoolObjs(engine.world.enemyProjectiles)
  /\ \A base \in ParticleBases :
       allocParticle(engine, base).item.obj
         \notin PoolObjs(engine.world.particles)

\* The last step took a shot of the player and a particle from their pools,
\* and both pools and both live lists hold records after it.
C35_Witness ==
  /\ ev.op = "update" /\ ev.path = "systems"
  /\ Reused(engine.world.playerProjectiles, ev.mid.playerProjectilePool) # {}
  /\ Reused(engine.world.particles, ev.mid.particlePool) # {}
  /\ engine.playerProjectilePool # <<>>
  /\ engine.particlePool # <<>>

\* ---------------------------------------------------------------- C36
\* C36: between operations the draft is active exactly when the list of
\* offered options is not empty, and an active draft has exactly 3 options.
C36_DraftStateConsistent ==
  /\ engine.draftActive <=> (engine.draftOptions # <<>>)
  /\ engine.draftActive => (Len(engine.draftOptions) = 3)

\* A step of the systems opens the second draft of a run: the first one was
\* closed by a choice, which the inventory records.
C36_Witness ==
  /\ DraftOpened
  /\ ~ev.mid.draftActive /\ ev.mid.draftOptions = <<>>
  /\ engine.inventory # <<>>
  /\ Len(engine.draftOptions) = 3

\* ---------------------------------------------------------------- C37
\* The frame callback has returned: render() was the last thing it did.
TickDone == ev.op = "render" /\ loop.pc = "idle"

\* C37: after every tick of the frame callback the accumulator is at least
\* 0 and below the fixed step, and the tick made 15 update calls at most,
\* whatever the timestamps, a first timestamp before the time start()
\* recorded included.
C37_AccumulatorInRange ==
  TickDone => /\ 0 <= loop.accumulator
              /\ loop.accumulator < FIXED_STEP_SECONDS
              /\ ev.updates <= 15

\* ---------------------------------------------------------------- C38
\* C38: the live particles never number more than MAX_PARTICLES (800), and
\* the trail of the player never has more than 80 points once trailSystem
\* has run.
C38_ParticleAndTrailCaps ==
  /\ Len(engine.world.particles) <= MAX_PARTICLES
  /\ Len(engine.world.trail) <= 80
  /\ ev.op = "frame" => (Len(ev.mid.world.particles) <= MAX_PARTICLES)

\* Both caps bind in one frame: the sparks of the frame were cut short at
\* 800 particles, and trailSystem pushed a point on a trail of 80 and kept
\* the last 80.
C38_Witness ==
  /\ ev.op = "frame"
  /\ Len(ev.pre.world.particles) + (12 * ev.arg.hits) > MAX_PARTICLES
  /\ Len(ev.mid.world.particles) = MAX_PARTICLES
  /\ Len(ev.pre.world.trail) = 80
  /\ Len(engine.world.trail) = 80

\* ---------------------------------------------------------------- C39
\* The blades that have the stats of this saw level.
BladesOfLevel(blades, level) ==
  {k \in 1..Len(blades) :
     /\ blades[k].damage = 10000 + (4000 * level)
     /\ blades[k].orbitRadius = 42 + (8 * level)}

\* C39: after every step of the systems with sawLevel > 0 there are exactly
\* 2 + sawLevel saw blades, and each has the stats of the current level
\* (damage 10 + 4 * sawLevel, orbitRadius 42 + 8 * sawLevel), the blades
\* made before the latest upgrade of the saw included.
C39_SawBladesMatchLevel ==
  (ev.op = "update" /\ ev.path = "systems" /\ engine.world.sawLevel > 0) =>
    (/\ Len(engine.world.sawBlades) = 2 + engine.world.sawLevel
     /\ BladesOfLevel(engine.world.sawBlades, engine.world.sawLevel)
          = 1..Len(engine.world.sawBlades))

====
